---- MODULE Spec2Model ----
(***************************************************************************)
(* A state-machine model of the content-intelligence pipeline:             *)
(*   - the heading-aware, token-budgeted chunker (ingestion/chunk.py),     *)
(*   - similarity retrieval (analysis/linking.py, db/client.py),           *)
(*   - document aggregation and clustering (analysis/clustering.py),       *)
(*   - the content-gap analysis page (pages/2_Content_Gap_Analysis.py),    *)
(*   - two analysis runs over the same stored rows (row order of the store),*)
(*   - the parser of the label service's response (_parse_cluster_response),*)
(*   - embed_texts request by request (ingestion/embed.py),                *)
(*   - ingestion from an export and from the feed (ingestion/ingest.py,    *)
(*     ingestion/ingest_rss.py, ingestion/parse.py) over the store,        *)
(*   - concurrent callers of find_similar_chunks and the shared _client.   *)
(*   - merge_small_sections and split_by_paragraphs called on their own,  *)
(*   - the Streamlit pages and the password gate (app.py, auth.py, pages/),*)
(*   - repeated ingestion of one publication from exports and the feed,    *)
(*   - two ingesters writing to one store with interleaved requests.       *)
(*                                                                         *)
(* Text representation.  A text is a non-empty sequence of lines (the      *)
(* pieces between "\n" characters); the empty string is the one-line text  *)
(* whose only line is empty.  A line is one of                             *)
(*   T  a line of ordinary text carrying w tokens (no edge whitespace),    *)
(*   H  a level-2/3 heading line "## <label>",                             *)
(*   B  an empty line,                                                     *)
(*   W  a line holding only spaces.                                        *)
(***************************************************************************)
EXTENDS Integers, Sequences, FiniteSets, TLC

VARIABLES
    markdown,      \* chunker: the input text of chunk_article
    pc,            \* chunker: position inside chunk_article
    sections,      \* chunker: the list bound to `sections` before the merge call
    merged,        \* chunker: the list returned by merge_small_sections
    final_chunks,  \* chunker: final_chunks after the split loop
    result,        \* chunker: the list chunk_article returns
    call,          \* chunker: 1 for the first call on the text, 2 for the repeat
    prev_result,   \* chunker: what the first call returned
    chunks_table,  \* retrieval: the rows of the store's chunks table
    q_pc,          \* retrieval: position inside find_similar_chunks
    q_args,        \* retrieval: the arguments of the find_similar_chunks call
    q_embedding,   \* retrieval: the embedding of the query text
    q_params,      \* retrieval: the params dict sent with the match_chunks RPC
    q_result,      \* retrieval: the rows find_similar_chunks returns
    c_pc,          \* clustering: position in the aggregate-then-cluster call chain
    c_chunks,      \* clustering: the chunk rows given to compute_article_embeddings
    c_k,           \* clustering: n_clusters
    c_article_embeddings, \* clustering: what compute_article_embeddings returned
    c_labels,      \* clustering: the labels dict cluster_articles returns
    c_centroids,   \* clustering: kmeans.cluster_centers_
    c_article_ids, \* clustering: the article_ids list cluster_articles returns
    g_pc,          \* gap page: position inside one run of the page script
    g_store,       \* gap page: the store's tables (articles, chunks with embeddings)
    g_n_clusters,  \* gap page: the value of the "Number of clusters" slider
    g_raw_chunks,  \* gap page: raw_chunks
    g_article_embeddings, \* gap page: article_embeddings
    g_clustering,  \* gap page: (labels, centroids, article_ids) once clustered
    g_cluster_titles, \* gap page: cluster_titles
    g_calls,       \* gap page: the external calls made by this run, in order
    g_session      \* gap page: st.session_state: whether it holds "cluster_info", and its "cluster_titles"

VARIABLES
    o_pc,          \* repeated analysis: position inside the current analysis run
    o_store,       \* repeated analysis: the chunk rows the store holds
    o_k,           \* repeated analysis: n_clusters, the same in both runs
    o_raw,         \* repeated analysis: the rows get_all_chunk_embeddings returned
    o_article_embeddings, \* repeated analysis: article_embeddings of this run
    o_out,         \* repeated analysis: (labels, centroids) of this run
    o_run,         \* repeated analysis: 1 for the first run, 2 for the second
    o_prev         \* repeated analysis: (labels, centroids) of the first run

orderVars == <<o_pc, o_store, o_k, o_raw, o_article_embeddings, o_out, o_run, o_prev>>

VARIABLES
    p_pc,          \* response parsing: position inside _parse_cluster_response
    p_text,        \* response parsing: the lines of the response text
    p_cluster_ids, \* response parsing: the cluster_ids argument
    p_i,           \* response parsing: how many lines the loop has consumed
    p_st           \* response parsing: results, current_id, and whether it raised

parseVars == <<p_pc, p_text, p_cluster_ids, p_i, p_st>>

VARIABLES
    e_pc,          \* embedding: position inside embed_texts
    e_texts,       \* embedding: the texts argument
    e_i,           \* embedding: the loop index i (0-based)
    e_all,         \* embedding: all_embeddings
    e_requests     \* embedding: the inputs of the gateway requests made, in order

embedVars == <<e_pc, e_texts, e_i, e_all, e_requests>>

VARIABLES
    i_pc,          \* ingestion: position inside ingest / ingest_rss
    i_path,        \* ingestion: "zip" for ingest, "rss" for ingest_rss
    i_source,      \* ingestion: the files of the export, or the items of the feed
    i_max,         \* ingestion: max_articles (ingest_rss)
    i_db,          \* ingestion: the store's articles and chunks tables
    i_db0,         \* ingestion: the store as it was when this run started
    i_articles,    \* ingestion: articles (ingest) or new_articles (ingest_rss)
    i_idx,         \* ingestion: 1-based position of the loop in i_articles
    i_cur,         \* ingestion: the loop body's locals
    i_log,         \* ingestion: the collaborator calls of this run, with outcome
    i_run,         \* ingestion: 1 for the first run, 2 for the re-run
    i_first        \* ingestion: how the first run ended and the store it left

ingestVars == <<i_pc, i_path, i_source, i_max, i_db, i_db0, i_articles, i_idx, i_cur, i_log, i_run, i_first>>

VARIABLES
    k_pc,          \* concurrent retrieval: each caller's position
    k_text,        \* concurrent retrieval: each caller's query text
    k_new,         \* concurrent retrieval: the handle a caller has just constructed
    k_local,       \* concurrent retrieval: embed_texts' local `client` of each caller
    k_embedding,   \* concurrent retrieval: each caller's query embedding
    k_result,      \* concurrent retrieval: the rows each caller got back
    k_table,       \* concurrent retrieval: the store's chunks table
    k_client,      \* concurrent retrieval: the module global _client (0 is None)
    k_handles,     \* concurrent retrieval: how many OpenAI handles were constructed
    k_writes       \* concurrent retrieval: how many writes to module globals were made

concVars == <<k_pc, k_text, k_new, k_local, k_embedding, k_result, k_table, k_client, k_handles, k_writes>>

VARIABLES
    m_pc,          \* merge pass: position of the caller of merge_small_sections
    m_sections,    \* merge pass: the sections argument
    m_threshold,   \* merge pass: the threshold argument
    m_input,       \* merge pass: the caller's section records after the call
    m_merged       \* merge pass: the returned list

mergeVars == <<m_pc, m_sections, m_threshold, m_input, m_merged>>

VARIABLES
    s_pc,              \* paragraph split: position inside split_by_paragraphs
    s_text,            \* paragraph split: the text argument
    s_max_tokens,      \* paragraph split: the max_tokens argument
    s_paragraphs,      \* paragraph split: paragraphs
    s_n,               \* paragraph split: how many paragraphs the loop has taken
    s_chunks,          \* paragraph split: chunks
    s_current,         \* paragraph split: current
    s_current_tokens   \* paragraph split: current_tokens

paraVars == <<s_pc, s_text, s_max_tokens, s_paragraphs, s_n, s_chunks, s_current, s_current_tokens>>

VARIABLES
    a_secret,      \* application: the configured APP_PASSWORD (None when unset)
    a_auth,        \* application: st.session_state "authenticated": absent, False or True
    a_articles,    \* application: the article rows of the store
    a_chunks,      \* application: the ids of the articles that own chunk rows
    a_results,     \* application: whether "cluster_info" is in st.session_state
    a_page,        \* application: the page script of the last run
    a_auth0,       \* application: "authenticated" when the last run started
    a_in,          \* application: the widget values of the last run
    a_effects      \* application: what the last run did, in order

appVars == <<a_secret, a_auth, a_articles, a_chunks, a_results, a_page, a_auth0, a_in, a_effects>>

VARIABLES
    r_pc,          \* repeated ingestion: where the run under way stands
    r_db,          \* repeated ingestion: the store
    r_count,       \* repeated ingestion: how many ingestion runs have been started
    r_last,        \* repeated ingestion: the path and source of the last run started
    r_format,      \* repeated ingestion: the publication and the layout of its exports
    r_max,         \* repeated ingestion: max_articles of the feed run
    r_articles,    \* repeated ingestion: the articles the run works through
    r_idx,         \* repeated ingestion: the position of the for loop
    r_cur,         \* repeated ingestion: the locals of the current iteration
    r_raised       \* repeated ingestion: whether some run so far has raised

reVars == <<r_pc, r_db, r_count, r_last, r_format, r_max, r_articles, r_idx, r_cur, r_raised>>

VARIABLES
    x_db,          \* concurrent ingestion: the store shared by the ingesters
    x_proc,        \* concurrent ingestion: each ingester's command, document, position and locals
    x_answers,     \* concurrent ingestion: the (text, vector) pairs the gateway has returned
    x_interleaved  \* concurrent ingestion: a write fell between another document's writes

interVars == <<x_db, x_proc, x_answers, x_interleaved>>

chunkVars == <<markdown, pc, sections, merged, final_chunks, result, call, prev_result>>
retrVars == <<chunks_table, q_pc, q_args, q_embedding, q_params, q_result>>

clusVars == <<c_pc, c_chunks, c_k, c_article_embeddings, c_labels, c_centroids, c_article_ids>>

gapVars == <<g_pc, g_store, g_n_clusters, g_raw_chunks, g_article_embeddings, g_clustering, g_cluster_titles, g_calls, g_session>>

vars == <<chunkVars, retrVars, clusVars, gapVars, orderVars, parseVars, embedVars, ingestVars, concVars, mergeVars, paraVars, appVars, reVars, interVars>>

nonChunkVars == <<retrVars, clusVars, gapVars, orderVars, parseVars, embedVars, ingestVars, concVars, mergeVars, paraVars, appVars, reVars, interVars>>
nonRetrVars == <<chunkVars, clusVars, gapVars, orderVars, parseVars, embedVars, ingestVars, concVars, mergeVars, paraVars, appVars, reVars, interVars>>
nonClusVars == <<chunkVars, retrVars, gapVars, orderVars, parseVars, embedVars, ingestVars, concVars, mergeVars, paraVars, appVars, reVars, interVars>>
nonGapVars == <<chunkVars, retrVars, clusVars, orderVars, parseVars, embedVars, ingestVars, concVars, mergeVars, paraVars, appVars, reVars, interVars>>
nonOrderVars == <<chunkVars, retrVars, clusVars, gapVars, parseVars, embedVars, ingestVars, concVars, mergeVars, paraVars, appVars, reVars, interVars>>
nonParseVars == <<chunkVars, retrVars, clusVars, gapVars, orderVars, embedVars, ingestVars, concVars, mergeVars, paraVars, appVars, reVars, interVars>>
nonEmbedVars == <<chunkVars, retrVars, clusVars, gapVars, orderVars, parseVars, ingestVars, concVars, mergeVars, paraVars, appVars, reVars, interVars>>
nonIngestVars == <<chunkVars, retrVars, clusVars, gapVars, orderVars, parseVars, embedVars, concVars, mergeVars, paraVars, appVars, reVars, interVars>>
nonConcVars == <<chunkVars, retrVars, clusVars, gapVars, orderVars, parseVars, embedVars, ingestVars, mergeVars, paraVars, appVars, reVars, interVars>>
nonMergeVars == <<chunkVars, retrVars, clusVars, gapVars, orderVars, parseVars, embedVars, ingestVars, concVars, paraVars, appVars, reVars, interVars>>
nonParaVars == <<chunkVars, retrVars, clusVars, gapVars, orderVars, parseVars, embedVars, ingestVars, concVars, mergeVars, appVars, reVars, interVars>>
nonAppVars == <<chunkVars, retrVars, clusVars, gapVars, orderVars, parseVars, embedVars, ingestVars, concVars, mergeVars, paraVars, reVars, interVars>>
nonReVars == <<chunkVars, retrVars, clusVars, gapVars, orderVars, parseVars, embedVars, ingestVars, concVars, mergeVars, paraVars, appVars, interVars>>
nonInterVars == <<chunkVars, retrVars, clusVars, gapVars, orderVars, parseVars, embedVars, ingestVars, concVars, mergeVars, paraVars, appVars, reVars>>

-----------------------------------------------------------------------------
(* Configuration: src/config.py *)

MAX_CHUNK_TOKENS == 1000
MERGE_THRESHOLD_TOKENS == 750

(* Bounds of the model *)
MaxLines == 5

None == "None"

-----------------------------------------------------------------------------
(* Lines and texts *)

TextLine(n) == [k |-> "T", w |-> n, h |-> None]
HeadingLine(label) == [k |-> "H", w |-> 2, h |-> label]
BlankLine == [k |-> "B", w |-> 0, h |-> None]
SpaceLine == [k |-> "W", w |-> 1, h |-> None]

LineWeights == {1, MAX_CHUNK_TOKENS - 1, MAX_CHUNK_TOKENS}
HeadingLabels == {"A", "B"}

Lines ==
    {TextLine(n) : n \in LineWeights}
        \cup {HeadingLine(l) : l \in HeadingLabels}
        \cup {BlankLine, SpaceLine}

Texts == UNION {[1..n -> Lines] : n \in 1..MaxLines}

EmptyText == <<BlankLine>>

IsBlankLine(l) == l.k \in {"B", "W"}

\* str.strip(): leading and trailing whitespace (blank and space-only lines) goes
RECURSIVE LStrip(_)
LStrip(t) ==
    IF t = <<>> THEN <<>>
    ELSE IF IsBlankLine(Head(t)) THEN LStrip(Tail(t)) ELSE t

RECURSIVE RStrip(_)
RStrip(t) ==
    IF t = <<>> THEN <<>>
    ELSE IF IsBlankLine(t[Len(t)]) THEN RStrip(SubSeq(t, 1, Len(t) - 1)) ELSE t

Strip(t) ==
    LET s == RStrip(LStrip(t)) IN IF s = <<>> THEN EmptyText ELSE s

\* a + "\n\n" + b
JoinBlank(a, b) == a \o <<BlankLine>> \o b

\* truthiness of a str or None
Truthy(text) == text # EmptyText

-----------------------------------------------------------------------------
(* Tokenizer adapter.  The token count of a text is the tokens of its lines
   plus one token for every maximal run of line breaks. *)

RECURSIVE SumWeights(_)
SumWeights(t) == IF t = <<>> THEN 0 ELSE Head(t).w + SumWeights(Tail(t))

count_tokens(text) ==
    SumWeights(text)
        + Cardinality({i \in 1..(Len(text) - 1) : i = 1 \/ text[i].k # "B"})

-----------------------------------------------------------------------------
(* split_by_headings *)

Section(heading, text) == [heading |-> heading, text |-> text]

\* "Save previous section" / "Save last section"
SaveSection(secs, heading, lines) ==
    IF lines # <<>> /\ Truthy(Strip(lines))
    THEN Append(secs, Section(heading, Strip(lines)))
    ELSE secs

RECURSIVE HeadingsLoop(_, _, _, _)
HeadingsLoop(rest, secs, current_heading, current_lines) ==
    IF rest = <<>> THEN SaveSection(secs, current_heading, current_lines)
    ELSE LET line == Head(rest) IN
        IF line.k = "H"
        THEN HeadingsLoop(Tail(rest),
                          SaveSection(secs, current_heading, current_lines),
                          line.h, <<>>)
        ELSE HeadingsLoop(Tail(rest), secs, current_heading,
                          Append(current_lines, line))

split_by_headings(md) == HeadingsLoop(md, <<>>, None, <<>>)

-----------------------------------------------------------------------------
(* split_by_paragraphs *)

\* the last line break of the run of line breaks that starts after line i
RECURSIVE RunEnd(_, _)
RunEnd(t, i) ==
    IF i + 1 <= Len(t) - 1 /\ t[i + 1].k = "B" THEN RunEnd(t, i + 1) ELSE i

\* re.split(r"\n{2,}", text)
RECURSIVE ReSplitFrom(_, _, _, _)
ReSplitFrom(t, i, cur, acc) ==
    IF i = Len(t) THEN Append(acc, cur)
    ELSE LET m == RunEnd(t, i) IN
        IF m > i
        THEN ReSplitFrom(t, m + 1, <<t[m + 1]>>, Append(acc, cur))
        ELSE ReSplitFrom(t, i + 1, Append(cur, t[i + 1]), acc)

re_split_paragraphs(text) == ReSplitFrom(text, 1, <<text[1]>>, <<>>)

\* "\n\n".join(current)
RECURSIVE JoinParagraphs(_)
JoinParagraphs(ps) ==
    IF Len(ps) = 1 THEN ps[1]
    ELSE JoinBlank(ps[1], JoinParagraphs(Tail(ps)))

\* the running budget test of the packing loop
ParagraphOverflows(current_tokens, para_tokens, max_tokens) ==
    current_tokens + para_tokens > max_tokens

RECURSIVE PackLoop(_, _, _, _, _)
PackLoop(paras, chunks, current, current_tokens, max_tokens) ==
    IF paras = <<>>
    THEN IF current # <<>> THEN Append(chunks, JoinParagraphs(current)) ELSE chunks
    ELSE LET para == Head(paras)
             para_tokens == count_tokens(para)
         IN IF ParagraphOverflows(current_tokens, para_tokens, max_tokens)
                /\ current # <<>>
            THEN PackLoop(Tail(paras), Append(chunks, JoinParagraphs(current)),
                          <<para>>, para_tokens, max_tokens)
            ELSE PackLoop(Tail(paras), chunks, Append(current, para),
                          current_tokens + para_tokens, max_tokens)

split_by_paragraphs(text, max_tokens) ==
    PackLoop(re_split_paragraphs(text), <<>>, <<>>, 0, max_tokens)

-----------------------------------------------------------------------------
(* merge_small_sections.  Section records are dicts, held by reference: the
   heap is the sequence of dict objects, heap[1..n] being the caller's. *)

\* a slip: the section is appended as it is, with no copy
DictCopyAliased(heap, ref) == [heap |-> heap, ref |-> ref]

\* dict.copy(): a new object with the same items
DictCopy(heap, ref) == [heap |-> Append(heap, heap[ref]), ref |-> Len(heap) + 1]

\* merged[-1]["text"] += "\n\n" + section["text"], and the heading rule
MergeInto(prev, section) ==
    [text |-> JoinBlank(prev.text, section.text),
     heading |-> IF prev.heading = None \/ prev.heading = ""
                 THEN section.heading ELSE prev.heading]

RECURSIVE MergeLoop(_, _, _, _, _)
MergeLoop(heap, n, i, refs, threshold) ==
    IF i > n THEN [heap |-> heap, refs |-> refs]
    ELSE LET last == refs[Len(refs)]
             prev_tokens == count_tokens(heap[last].text)
             curr_tokens == count_tokens(heap[i].text)
         IN IF prev_tokens + curr_tokens <= threshold
            THEN MergeLoop([heap EXCEPT ![last] = MergeInto(heap[last], heap[i])],
                           n, i + 1, refs, threshold)
            ELSE LET c == DictCopy(heap, i)
                 IN MergeLoop(c.heap, n, i + 1, Append(refs, c.ref), threshold)

\* input: the caller's section records after the call; merged: the returned list
merge_small_sections(secs, threshold) ==
    IF secs = <<>> THEN [input |-> secs, merged |-> secs]
    ELSE LET c == DictCopy(secs, 1)
             r == MergeLoop(c.heap, Len(secs), 2, <<c.ref>>, threshold)
         IN [input |-> SubSeq(r.heap, 1, Len(secs)),
             merged |-> [j \in 1..Len(r.refs) |-> r.heap[r.refs[j]]]]

-----------------------------------------------------------------------------
(* chunk_article *)

\* a slip: the empty section list is kept as it is
FallbackSectionsDropped(secs, md) == secs

\* "If no headings found, treat entire text as one section"
FallbackSections(secs, md) ==
    IF secs = <<>> THEN <<Section(None, md)>> ELSE secs

\* the sub-chunks of one section in the split loop
SectionChunks(section) ==
    IF count_tokens(section.text) > MAX_CHUNK_TOKENS
    THEN LET subs == split_by_paragraphs(section.text, MAX_CHUNK_TOKENS)
         IN [j \in 1..Len(subs) |-> Section(section.heading, subs[j])]
    ELSE <<section>>

RECURSIVE SplitOversized(_)
SplitOversized(secs) ==
    IF secs = <<>> THEN <<>>
    ELSE SectionChunks(Head(secs)) \o SplitOversized(Tail(secs))

\* the index stored with the chunk at position i (1-based) of final_chunks
ChunkIndex(i, kept_before) == i - 1

RECURSIVE BuildLoop(_, _, _)
BuildLoop(chunks, i, res) ==
    IF i > Len(chunks) THEN res
    ELSE LET text == Strip(chunks[i].text) IN
        IF ~Truthy(text) THEN BuildLoop(chunks, i + 1, res)
        ELSE BuildLoop(chunks, i + 1,
                Append(res, [chunk_index |-> ChunkIndex(i, Len(res)),
                             chunk_text |-> text,
                             heading |-> chunks[i].heading,
                             token_count |-> count_tokens(text)]))

\* a slip: result is one list kept between calls (a module-level list or a
\* mutable default argument), so a call appends to what the last call left
BuildOutputAccumulating(chunks) == BuildLoop(chunks, 1, result)

\* result = [], then the output loop
BuildOutput(chunks) == BuildLoop(chunks, 1, <<>>)

chunk_article(md) ==
    BuildOutput(SplitOversized(
        merge_small_sections(FallbackSections(split_by_headings(md), md),
                             MERGE_THRESHOLD_TOKENS).merged))

-----------------------------------------------------------------------------
(* The chunker as a state machine: one call of chunk_article, step by step,
   then a second call on the same text.  The names sections, merged,
   final_chunks and result still hold what the first call bound them to when
   the second call starts: every step of chunk_article binds its name anew
   (sections = ..., final_chunks = [], result = []), and a step that read what
   an earlier call left behind would make the second call differ. *)

ChunkIdle ==
    /\ markdown = EmptyText
    /\ pc = "idle"
    /\ sections = <<>>
    /\ merged = <<>>
    /\ final_chunks = <<>>
    /\ result = <<>>
    /\ call = 0
    /\ prev_result = <<>>

ChunkStart ==
    /\ markdown \in Texts
    /\ pc = "start"
    /\ sections = <<>>
    /\ merged = <<>>
    /\ final_chunks = <<>>
    /\ result = <<>>
    /\ call = 1
    /\ prev_result = <<>>

SegmentStep ==
    /\ pc = "start"
    /\ sections' = split_by_headings(markdown)
    /\ pc' = "segmented"
    /\ UNCHANGED <<markdown, merged, final_chunks, result, call, prev_result, nonChunkVars>>

FallbackStep ==
    /\ pc = "segmented"
    /\ sections' = FallbackSections(sections, markdown)
    /\ pc' = "sectioned"
    /\ UNCHANGED <<markdown, merged, final_chunks, result, call, prev_result, nonChunkVars>>

MergeStep ==
    /\ pc = "sectioned"
    /\ LET r == merge_small_sections(sections, MERGE_THRESHOLD_TOKENS)
       IN /\ sections' = r.input
          /\ merged' = r.merged
    /\ pc' = "merged"
    /\ UNCHANGED <<markdown, final_chunks, result, call, prev_result, nonChunkVars>>

SplitStep ==
    /\ pc = "merged"
    /\ final_chunks' = SplitOversized(merged)
    /\ pc' = "split"
    /\ UNCHANGED <<markdown, sections, merged, result, call, prev_result, nonChunkVars>>

BuildStep ==
    /\ pc = "split"
    /\ result' = BuildOutput(final_chunks)
    /\ pc' = "done"
    /\ UNCHANGED <<markdown, sections, merged, final_chunks, call, prev_result, nonChunkVars>>

\* the caller chunks the same text again
CallAgain ==
    /\ pc = "done"
    /\ call = 1
    /\ prev_result' = result
    /\ call' = 2
    /\ pc' = "start"
    /\ UNCHANGED <<markdown, sections, merged, final_chunks, result, nonChunkVars>>

ChunkNext ==
    \/ SegmentStep
    \/ FallbackStep
    \/ MergeStep
    \/ SplitStep
    \/ BuildStep
    \/ CallAgain

-----------------------------------------------------------------------------
(* Embedding gateway: ingestion/embed.py *)

EMBEDDING_BATCH_SIZE == 100

\* the vectors the gateway and the store hold (integer norms, so that every
\* cosine is an exact number of hundredths)
Vectors == {<<0, 0>>, <<1, 0>>, <<3, 4>>, <<4, 3>>}

QueryTexts == {"q1", "q2"}

\* the gateway's embedding of one text
GatewayEmbedding(text) == IF text = "q1" THEN <<1, 0>> ELSE <<3, 4>>

\* client.embeddings.create(model, input=batch): one vector per input, in order
GatewayCreate(batch) == [j \in 1..Len(batch) |-> GatewayEmbedding(batch[j])]

Min(a, b) == IF a < b THEN a ELSE b

\* a slip: the slice is one text too long
BatchOfOverlong(texts, i) ==
    SubSeq(texts, i + 1, Min(i + EMBEDDING_BATCH_SIZE + 1, Len(texts)))

\* texts[i : i + EMBEDDING_BATCH_SIZE]; i is 0-based
BatchOf(texts, i) == SubSeq(texts, i + 1, Min(i + EMBEDDING_BATCH_SIZE, Len(texts)))

\* the loop over range(0, len(texts), EMBEDDING_BATCH_SIZE)
RECURSIVE EmbedBatches(_, _, _)
EmbedBatches(texts, i, all_embeddings) ==
    IF i >= Len(texts) THEN all_embeddings
    ELSE EmbedBatches(texts, i + EMBEDDING_BATCH_SIZE,
                      all_embeddings \o GatewayCreate(BatchOf(texts, i)))

embed_texts(texts) == EmbedBatches(texts, 0, <<>>)

embed_single(text) == embed_texts(<<text>>)[1]

-----------------------------------------------------------------------------
(* The store's match_chunks function, called over RPC.  Its definition is not
   among the source files; it is modelled from the retrieval contract:
   cosine similarity (0 for a zero vector), exclusion of one article, a
   threshold, descending order with ties in (article id, chunk index) order,
   truncation to match_count.  Similarities are in hundredths. *)

Dot(a, b) == a[1] * b[1] + a[2] * b[2]

Norm(a) == CHOOSE n \in 0..Dot(a, a) : n * n = Dot(a, a)

CosineSimilarity(a, b) ==
    IF Norm(a) * Norm(b) = 0 THEN 0
    ELSE (100 * Dot(a, b)) \div (Norm(a) * Norm(b))

RankedBefore(a, b) ==
    \/ a.similarity > b.similarity
    \/ /\ a.similarity = b.similarity
       /\ \/ a.article_id < b.article_id
          \/ a.article_id = b.article_id /\ a.chunk_index < b.chunk_index

RECURSIVE RankRows(_)
RankRows(rows) ==
    IF rows = {} THEN <<>>
    ELSE LET first == CHOOSE r \in rows : \A o \in rows \ {r} : RankedBefore(r, o)
         IN <<first>> \o RankRows(rows \ {first})

MatchChunksRpc(table, params) ==
    LET scored == {[article_id |-> r.article_id,
                    chunk_index |-> r.chunk_index,
                    similarity |-> CosineSimilarity(params.query_embedding, r.embedding)]
                   : r \in table}
        kept == {r \in scored :
                    /\ r.similarity >= params.similarity_threshold
                    /\ ("exclude_article_id" \in DOMAIN params
                            => r.article_id # params.exclude_article_id)}
        ranked == RankRows(kept)
    IN SubSeq(ranked, 1, Min(params.match_count, Len(ranked)))

-----------------------------------------------------------------------------
(* db/client.py match_chunks and analysis/linking.py find_similar_chunks *)

\* an optional integer argument: <<>> is None, <<n>> is the integer n
NoneInt == <<>>
SomeInt(n) == <<n>>
IntOf(opt) == opt[1]

BaseParams(query_embedding, match_count, similarity_threshold) ==
    [query_embedding |-> query_embedding,
     match_count |-> match_count,
     similarity_threshold |-> similarity_threshold]

\* a slip: the exclusion is never put into the params
MatchChunksParamsNoExclude(query_embedding, match_count, similarity_threshold, exclude_article_id) ==
    BaseParams(query_embedding, match_count, similarity_threshold)

\* the params dict of match_chunks
MatchChunksParams(query_embedding, match_count, similarity_threshold, exclude_article_id) ==
    IF exclude_article_id # NoneInt
    THEN [query_embedding |-> query_embedding,
          match_count |-> match_count,
          similarity_threshold |-> similarity_threshold,
          exclude_article_id |-> IntOf(exclude_article_id)]
    ELSE BaseParams(query_embedding, match_count, similarity_threshold)

(* Bounds of the retrieval model *)
MaxArticles == 2

ArticleIds == 1..MaxArticles
ChunkIndexes == {0, 1}
ChunkKeys == ArticleIds \X ChunkIndexes

\* the chunks tables: at most one row per (article_id, chunk_index)
ChunkTables ==
    UNION {{{[article_id |-> key[1], chunk_index |-> key[2], embedding |-> e[key]]
                : key \in K} : e \in [K -> Vectors]} : K \in SUBSET ChunkKeys}

\* thresholds in hundredths (the pages offer 0.30 .. 0.90)
Thresholds == {50, 80}
MatchCounts == {1, 2}

RetrIdle ==
    /\ chunks_table = {}
    /\ q_pc = "idle"
    /\ q_args = <<>>
    /\ q_embedding = <<>>
    /\ q_params = <<>>
    /\ q_result = <<>>

RetrStart ==
    /\ chunks_table \in ChunkTables
    /\ q_pc = "start"
    /\ q_args \in [text : QueryTexts,
                   match_count : MatchCounts,
                   similarity_threshold : Thresholds,
                   exclude_article_id : {SomeInt(a) : a \in ArticleIds} \cup {NoneInt}]
    /\ q_embedding = <<>>
    /\ q_params = <<>>
    /\ q_result = <<>>

\* find_similar_chunks: embedding = embed_single(text)
EmbedQuery ==
    /\ q_pc = "start"
    /\ q_embedding' = embed_single(q_args.text)
    /\ q_pc' = "embedded"
    /\ UNCHANGED <<chunks_table, q_args, q_params, q_result, nonRetrVars>>

\* find_similar_chunks: return match_chunks(client, embedding, ...)
MatchChunks ==
    /\ q_pc = "embedded"
    /\ LET params == MatchChunksParams(q_embedding, q_args.match_count,
                                       q_args.similarity_threshold,
                                       q_args.exclude_article_id)
       IN /\ q_params' = params
          /\ q_result' = MatchChunksRpc(chunks_table, params)
    /\ q_pc' = "done"
    /\ UNCHANGED <<chunks_table, q_args, q_embedding, nonRetrVars>>

RetrNext ==
    \/ EmbedQuery
    \/ MatchChunks

-----------------------------------------------------------------------------
(* Numbers.  numpy's float64 values are modelled as exact fractions in lowest
   terms with a positive denominator. *)

Abs(n) == IF n < 0 THEN -n ELSE n

RECURSIVE Gcd(_, _)
Gcd(a, b) == IF b = 0 THEN a ELSE Gcd(b, a % b)

Frac(n, d) ==
    LET g == Gcd(Abs(n), d) IN [num |-> n \div g, den |-> d \div g]

RAdd(a, b) == Frac(a.num * b.den + b.num * a.den, a.den * b.den)
RSub(a, b) == Frac(a.num * b.den - b.num * a.den, a.den * b.den)
RMul(a, b) == Frac(a.num * b.num, a.den * b.den)
RDivInt(a, n) == Frac(a.num, a.den * n)
RLess(a, b) == a.num * b.den < b.num * a.den
RZero == Frac(0, 1)

\* the embedding dimension of the model
Dim == 1..2

\* np.mean(arrays, axis=0): the componentwise mean of a non-empty list
RECURSIVE SumComponent(_, _)
SumComponent(arrays, d) ==
    IF arrays = <<>> THEN RZero
    ELSE RAdd(Head(arrays)[d], SumComponent(Tail(arrays), d))

\* a slip: the last array is left out of the sum
MeanAxis0Short(arrays) ==
    [d \in Dim |-> RDivInt(SumComponent(SubSeq(arrays, 1, Len(arrays) - 1), d),
                           Len(arrays))]

MeanAxis0(arrays) ==
    [d \in Dim |-> RDivInt(SumComponent(arrays, d), Len(arrays))]

-----------------------------------------------------------------------------
(* analysis/clustering.py: compute_article_embeddings *)

\* np.array(json.loads(emb), dtype=np.float64) / np.array(emb, dtype=np.float64)
parse_embedding(emb) == [d \in DOMAIN emb |-> Frac(emb[d], 1)]

\* position of key aid in an insertion-ordered dict (0 when absent)
KeyIndex(entries, aid) ==
    IF \E i \in 1..Len(entries) : entries[i].aid = aid
    THEN CHOOSE i \in 1..Len(entries) : entries[i].aid = aid
    ELSE 0

\* the first loop: article_map, a dict in insertion order
RECURSIVE ArticleMapLoop(_, _)
ArticleMapLoop(chunks, article_map) ==
    IF chunks = <<>> THEN article_map
    ELSE LET chunk == Head(chunks)
             aid == chunk.article_id
             am == IF KeyIndex(article_map, aid) = 0
                   THEN Append(article_map,
                               [aid |-> aid, embeddings |-> <<>>, chunks |-> <<>>])
                   ELSE article_map
             i == KeyIndex(am, aid)
         IN ArticleMapLoop(Tail(chunks),
                [am EXCEPT ![i].embeddings = Append(@, parse_embedding(chunk.embedding)),
                           ![i].chunks = Append(@, chunk)])

\* {article_id: {"embedding": mean, "chunks": [...]}}, in insertion order
compute_article_embeddings(chunks) ==
    LET article_map == ArticleMapLoop(chunks, <<>>)
    IN [i \in 1..Len(article_map) |->
            [aid |-> article_map[i].aid,
             embedding |-> MeanAxis0(article_map[i].embeddings),
             chunks |-> article_map[i].chunks]]

-----------------------------------------------------------------------------
(* sklearn KMeans(n_clusters, random_state=42, n_init=10).fit(X), as called by
   cluster_articles: Lloyd iterations with squared Euclidean distance, from
   n_init seedings, keeping the run of lowest inertia.  The seeded draw of the
   initial centres is a fixed function of the row positions. *)

KMEANS_N_INIT == 10
KMEANS_MAX_ITER == 300

RECURSIVE SqDistFrom(_, _, _)
SqDistFrom(a, b, d) ==
    IF d > Len(a) THEN RZero
    ELSE LET diff == RSub(a[d], b[d])
         IN RAdd(RMul(diff, diff), SqDistFrom(a, b, d + 1))

SqDist(a, b) == SqDistFrom(a, b, 1)

\* argmin over the centres, first minimum wins
Nearest(x, centers) ==
    LET dist == [j \in 1..Len(centers) |-> SqDist(x, centers[j])]
    IN CHOOSE j \in 1..Len(centers) :
        /\ \A o \in 1..Len(centers) : ~RLess(dist[o], dist[j])
        /\ \A o \in 1..(j - 1) : RLess(dist[j], dist[o])

AssignAll(X, centers) == [i \in 1..Len(X) |-> Nearest(X[i], centers)]

RECURSIVE MembersOf(_, _, _, _)
MembersOf(X, assign, j, i) ==
    IF i > Len(X) THEN <<>>
    ELSE (IF assign[i] = j THEN <<X[i]>> ELSE <<>>) \o MembersOf(X, assign, j, i + 1)

\* the mean of each cluster's members; a cluster without members keeps its centre
UpdateCenters(X, assign, centers) ==
    [j \in 1..Len(centers) |->
        LET members == MembersOf(X, assign, j, 1)
        IN IF members = <<>> THEN centers[j] ELSE MeanAxis0(members)]

RECURSIVE Inertia(_, _, _, _)
Inertia(X, assign, centers, i) ==
    IF i > Len(X) THEN RZero
    ELSE RAdd(SqDist(X[i], centers[assign[i]]), Inertia(X, assign, centers, i + 1))

RECURSIVE Lloyd(_, _, _)
Lloyd(X, centers, iter) ==
    LET assign == AssignAll(X, centers)
        updated == UpdateCenters(X, assign, centers)
    IN IF updated = centers \/ iter >= KMEANS_MAX_ITER
       THEN [labels |-> [i \in 1..Len(X) |-> assign[i] - 1],
             centers |-> updated,
             inertia |-> Inertia(X, assign, updated, 1)]
       ELSE Lloyd(X, updated, iter + 1)

\* the rows taken as initial centres by seeding r
InitCenters(X, k, r) == [j \in 1..k |-> X[((r + j - 2) % Len(X)) + 1]]

\* seedings r and r + len(X) draw the same rows, so min(n_init, len(X)) runs
\* decide the best one
Seedings(X) == 1..Min(KMEANS_N_INIT, Len(X))

KMeansRun(X, k, r) == Lloyd(X, InitCenters(X, k, r), 1)

\* the first seeding of lowest inertia
BestRun(runs) ==
    LET best == CHOOSE r \in DOMAIN runs :
                    /\ \A o \in DOMAIN runs : ~RLess(runs[o].inertia, runs[r].inertia)
                    /\ \A o \in DOMAIN runs :
                            o < r => RLess(runs[r].inertia, runs[o].inertia)
    IN runs[best]

\* a slip: n_clusters is not checked against the number of samples
KMeansValidLenient(n_samples, n_clusters) == n_samples >= 1

\* fit's validation: it raises ValueError for an empty X and for
\* n_samples < n_clusters, before any centre is drawn
KMeansValid(n_samples, n_clusters) == n_samples >= 1 /\ n_samples >= n_clusters

KMeansFit(X, k) == BestRun([r \in Seedings(X) |-> KMeansRun(X, k, r)])

-----------------------------------------------------------------------------
(* analysis/clustering.py: cluster_articles *)

\* article_ids = list(article_embeddings.keys())
ArticleIdList(article_embeddings) ==
    [i \in 1..Len(article_embeddings) |-> article_embeddings[i].aid]

\* X = np.array([article_embeddings[aid]["embedding"] for aid in article_ids])
EmbeddingMatrix(article_embeddings) ==
    [i \in 1..Len(article_embeddings) |-> article_embeddings[i].embedding]

\* a slip: the last article gets no label
ZipLabelsShort(article_ids, labels) ==
    [i \in 1..(Min(Len(article_ids), Len(labels)) - 1) |->
        [aid |-> article_ids[i], label |-> labels[i]]]

\* {aid: int(label) for aid, label in zip(article_ids, kmeans.labels_)}
ZipLabels(article_ids, labels) ==
    [i \in 1..Min(Len(article_ids), Len(labels)) |->
        [aid |-> article_ids[i], label |-> labels[i]]]

(* Bounds of the clustering model *)
MaxRows == 3

RowArticleIds == {1, 2, 3}
RowEmbeddings == {<<0, 1>>, <<2, 0>>}
ChunkRows == [article_id : RowArticleIds, embedding : RowEmbeddings]
ChunkRowLists == UNION {[1..n -> ChunkRows] : n \in 0..MaxRows}

ClusIdle ==
    /\ c_pc = "idle"
    /\ c_chunks = <<>>
    /\ c_k = 0
    /\ c_article_embeddings = <<>>
    /\ c_labels = <<>>
    /\ c_centroids = <<>>
    /\ c_article_ids = <<>>

ClusStart ==
    /\ c_pc = "start"
    /\ c_chunks \in ChunkRowLists
    /\ c_k \in 1..(MaxRows + 1)
    /\ c_article_embeddings = <<>>
    /\ c_labels = <<>>
    /\ c_centroids = <<>>
    /\ c_article_ids = <<>>

\* compute_article_embeddings(raw_chunks)
Aggregate ==
    /\ c_pc = "start"
    /\ c_article_embeddings' = compute_article_embeddings(c_chunks)
    /\ c_pc' = "aggregated"
    /\ UNCHANGED <<c_chunks, c_k, c_labels, c_centroids, c_article_ids, nonClusVars>>

\* cluster_articles: kmeans.fit(X) raises
ClusterRaises ==
    /\ c_pc = "aggregated"
    /\ ~KMeansValid(Len(c_article_embeddings), c_k)
    /\ c_pc' = "raised"
    /\ UNCHANGED <<c_chunks, c_k, c_article_embeddings, c_labels, c_centroids,
                   c_article_ids, nonClusVars>>

\* cluster_articles: kmeans.fit(X) succeeds and the results are returned
ClusterReturns ==
    /\ c_pc = "aggregated"
    /\ KMeansValid(Len(c_article_embeddings), c_k)
    /\ LET article_ids == ArticleIdList(c_article_embeddings)
           fit == KMeansFit(EmbeddingMatrix(c_article_embeddings), c_k)
       IN /\ c_labels' = ZipLabels(article_ids, fit.labels)
          /\ c_centroids' = fit.centers
          /\ c_article_ids' = article_ids
    /\ c_pc' = "clustered"
    /\ UNCHANGED <<c_chunks, c_k, c_article_embeddings, nonClusVars>>

ClusNext ==
    \/ Aggregate
    \/ ClusterRaises
    \/ ClusterReturns

-----------------------------------------------------------------------------
(* pages/2_Content_Gap_Analysis.py: one run of the page script *)

SLIDER_MIN == 5
SLIDER_MAX == 30

(* Bounds of the page model *)
MaxDocs == 6

\* the embeddings of the stored rows: all alike, or of two alternating kinds
StoredEmbeddings(n) ==
    {[i \in 1..n |-> <<0, 1>>],
     [i \in 1..n |-> IF i % 2 = 0 THEN <<2, 0>> ELSE <<0, 1>>]}

\* the store: articles 1..n, each owning one chunk row; select() returns the
\* rows in table order
GapStores ==
    UNION {{[articles |-> [i \in 1..n |-> [id |-> i, title |-> i]],
             chunks |-> [i \in 1..n |-> [article_id |-> i, embedding |-> e[i]]]]
            : e \in StoredEmbeddings(n)} : n \in 0..MaxDocs}

\* articles_map.get(aid, {}).get("title", f"Article {aid}")
TitleOf(articles, aid) ==
    IF \E i \in 1..Len(articles) : articles[i].id = aid
    THEN (CHOOSE a \in {articles[i] : i \in 1..Len(articles)} : a.id = aid).title
    ELSE aid

ClusterIndex(entries, cid) ==
    IF \E i \in 1..Len(entries) : entries[i].cid = cid
    THEN CHOOSE i \in 1..Len(entries) : entries[i].cid = cid
    ELSE 0

\* cluster_titles.setdefault(cluster_id, []).append(title), over labels.items()
RECURSIVE ClusterTitlesLoop(_, _, _)
ClusterTitlesLoop(labels, articles, cluster_titles) ==
    IF labels = <<>> THEN cluster_titles
    ELSE LET cid == Head(labels).label
             ct == IF ClusterIndex(cluster_titles, cid) = 0
                   THEN Append(cluster_titles, [cid |-> cid, titles |-> <<>>])
                   ELSE cluster_titles
             i == ClusterIndex(ct, cid)
         IN ClusterTitlesLoop(Tail(labels), articles,
                [ct EXCEPT ![i].titles = Append(@, TitleOf(articles, Head(labels).aid))])

\* st.session_state before any analysis has stored its results
NoSession == [has |-> FALSE, cluster_titles |-> <<>>]

\* st.session_state["cluster_titles"] as an analysis of the stored rows with
\* k clusters leaves it (lines 30-59)
AnalysisClusterTitles(store, k) ==
    LET article_embeddings == compute_article_embeddings(store.chunks)
        article_ids == ArticleIdList(article_embeddings)
        fit == KMeansFit(EmbeddingMatrix(article_embeddings), k)
    IN ClusterTitlesLoop(ZipLabels(article_ids, fit.labels), store.articles, <<>>)

\* the session of a browser tab in which an earlier run of the script
\* completed an analysis (of the store as it was then)
EarlierSessions ==
    UNION {{[has |-> TRUE, cluster_titles |-> AnalysisClusterTitles(store, k)] :
                k \in SLIDER_MIN..Len(store.chunks)} : store \in GapStores}

GapIdle ==
    /\ g_pc = "idle"
    /\ g_store = <<>>
    /\ g_n_clusters = 0
    /\ g_raw_chunks = <<>>
    /\ g_article_embeddings = <<>>
    /\ g_clustering = <<>>
    /\ g_cluster_titles = <<>>
    /\ g_calls = <<>>
    /\ g_session = NoSession

GapStart ==
    /\ g_pc = "page"
    /\ g_store \in GapStores
    /\ g_n_clusters \in SLIDER_MIN..SLIDER_MAX
    /\ g_raw_chunks = <<>>
    /\ g_article_embeddings = <<>>
    /\ g_clustering = <<>>
    /\ g_cluster_titles = <<>>
    /\ g_calls = <<>>
    /\ g_session \in {NoSession} \cup EarlierSessions

\* st.button("Run Analysis") is True in this run
PressRun ==
    /\ g_pc = "page"
    /\ g_pc' = "pressed"
    /\ UNCHANGED <<g_store, g_n_clusters, g_raw_chunks, g_article_embeddings,
                   g_clustering, g_cluster_titles, g_calls, g_session, nonGapVars>>

\* the button was not pressed: the script goes on to the rendering part
NoPress ==
    /\ g_pc = "page"
    /\ g_pc' = "render"
    /\ UNCHANGED <<g_store, g_n_clusters, g_raw_chunks, g_article_embeddings,
                   g_clustering, g_cluster_titles, g_calls, g_session, nonGapVars>>

\* articles = get_all_articles(client)
LoadArticles ==
    /\ g_pc = "pressed"
    /\ g_calls' = Append(g_calls, "get_all_articles")
    /\ g_pc' = "articles_loaded"
    /\ UNCHANGED <<g_store, g_n_clusters, g_raw_chunks, g_article_embeddings,
                   g_clustering, g_cluster_titles, g_session, nonGapVars>>

\* raw_chunks = get_all_chunk_embeddings(client)
LoadChunks ==
    /\ g_pc = "articles_loaded"
    /\ g_calls' = Append(g_calls, "get_all_chunk_embeddings")
    /\ g_raw_chunks' = g_store.chunks
    /\ g_pc' = "chunks_loaded"
    /\ UNCHANGED <<g_store, g_n_clusters, g_article_embeddings, g_clustering,
                   g_cluster_titles, g_session, nonGapVars>>

\* if not raw_chunks: st.warning(...); st.stop()
NoChunksStop ==
    /\ g_pc = "chunks_loaded"
    /\ g_raw_chunks = <<>>
    /\ g_pc' = "stopped"
    /\ UNCHANGED <<g_store, g_n_clusters, g_raw_chunks, g_article_embeddings,
                   g_clustering, g_cluster_titles, g_calls, g_session, nonGapVars>>

\* article_embeddings = compute_article_embeddings(raw_chunks)
ComputeEmbeddings ==
    /\ g_pc = "chunks_loaded"
    /\ g_raw_chunks # <<>>
    /\ g_article_embeddings' = compute_article_embeddings(g_raw_chunks)
    /\ g_pc' = "aggregated"
    /\ UNCHANGED <<g_store, g_n_clusters, g_raw_chunks, g_clustering,
                   g_cluster_titles, g_calls, g_session, nonGapVars>>

\* cluster_articles raises; nothing catches it and the run ends with the error
ClusterError ==
    /\ g_pc = "aggregated"
    /\ ~KMeansValid(Len(g_article_embeddings), g_n_clusters)
    /\ g_pc' = "error"
    /\ UNCHANGED <<g_store, g_n_clusters, g_raw_chunks, g_article_embeddings,
                   g_clustering, g_cluster_titles, g_calls, g_session, nonGapVars>>

\* labels, centroids, article_ids = cluster_articles(article_embeddings, n_clusters)
ClusterOk ==
    /\ g_pc = "aggregated"
    /\ KMeansValid(Len(g_article_embeddings), g_n_clusters)
    /\ LET article_ids == ArticleIdList(g_article_embeddings)
           fit == KMeansFit(EmbeddingMatrix(g_article_embeddings), g_n_clusters)
       IN g_clustering' = [labels |-> ZipLabels(article_ids, fit.labels),
                           centroids |-> fit.centers,
                           article_ids |-> article_ids]
    /\ g_pc' = "clustered"
    /\ UNCHANGED <<g_store, g_n_clusters, g_raw_chunks, g_article_embeddings,
                   g_cluster_titles, g_calls, g_session, nonGapVars>>

\* tsne_coords = compute_tsne(article_embeddings, article_ids), then the
\* cluster -> titles mapping
Project ==
    /\ g_pc = "clustered"
    /\ g_calls' = Append(g_calls, "compute_tsne")
    /\ g_cluster_titles' = ClusterTitlesLoop(g_clustering.labels, g_store.articles, <<>>)
    /\ g_pc' = "projected"
    /\ UNCHANGED <<g_store, g_n_clusters, g_raw_chunks, g_article_embeddings,
                   g_clustering, g_session, nonGapVars>>

\* feedback = get_all_gap_feedback(client)
LoadFeedback ==
    /\ g_pc = "projected"
    /\ g_calls' = Append(g_calls, "get_all_gap_feedback")
    /\ g_pc' = "feedback_loaded"
    /\ UNCHANGED <<g_store, g_n_clusters, g_raw_chunks, g_article_embeddings,
                   g_clustering, g_cluster_titles, g_session, nonGapVars>>

\* cluster_info = label_clusters_with_claude(cluster_titles, feedback=feedback),
\* then the results are put into st.session_state
LabelAndSave ==
    /\ g_pc = "feedback_loaded"
    /\ g_calls' = Append(g_calls, "label_clusters_with_claude")
    /\ g_session' = [has |-> TRUE, cluster_titles |-> g_cluster_titles]
    /\ g_pc' = "render"
    /\ UNCHANGED <<g_store, g_n_clusters, g_raw_chunks, g_article_embeddings,
                   g_clustering, g_cluster_titles, nonGapVars>>

\* if "cluster_info" in st.session_state: cluster_titles is read back from
\* the session, then plot, gaps with their feedback buttons, feedback statistics.  A feedback button is True only in the run
\* its click started, which is a run where "Run Analysis" was not pressed;
\* its branch calls upsert_gap_feedback before the statistics are read
RenderResults ==
    /\ g_pc = "render"
    /\ g_session.has
    /\ g_cluster_titles' = g_session.cluster_titles
    /\ \E vote \in BOOLEAN :
          /\ vote => g_calls = <<>>
          /\ g_calls' = g_calls \o (IF vote THEN <<"upsert_gap_feedback">> ELSE <<>>)
                                \o <<"get_all_gap_feedback">>
    /\ g_pc' = "rendered"
    /\ UNCHANGED <<g_store, g_n_clusters, g_raw_chunks, g_article_embeddings,
                   g_clustering, g_session, nonGapVars>>

RenderNothing ==
    /\ g_pc = "render"
    /\ ~g_session.has
    /\ g_pc' = "rendered"
    /\ UNCHANGED <<g_store, g_n_clusters, g_raw_chunks, g_article_embeddings,
                   g_clustering, g_cluster_titles, g_calls, g_session, nonGapVars>>

GapNext ==
    \/ PressRun
    \/ NoPress
    \/ LoadArticles
    \/ LoadChunks
    \/ NoChunksStop
    \/ ComputeEmbeddings
    \/ ClusterError
    \/ ClusterOk
    \/ Project
    \/ LoadFeedback
    \/ LabelAndSave
    \/ RenderResults
    \/ RenderNothing

-----------------------------------------------------------------------------
(* Two analysis runs over the same stored chunk rows:
   get_all_chunk_embeddings -> compute_article_embeddings -> cluster_articles.
   The select of get_all_chunk_embeddings has no order clause, so the store
   may return the rows in any order. *)

(* Bounds of the repeated-analysis model *)
MaxStoredRows == 3

OrderArticleIds == {1, 2}
OrderChunkRows == [article_id : OrderArticleIds, embedding : RowEmbeddings]
OrderStores == UNION {[1..n -> OrderChunkRows] : n \in 1..MaxStoredRows}
OrderClusterCounts == {1, 2}

\* the orders in which a select without an order clause may return the rows
RowOrders(rows) ==
    LET n == Len(rows)
        perms == {p \in [1..n -> 1..n] : \A i, j \in 1..n : p[i] = p[j] => i = j}
    IN {[i \in 1..n |-> rows[p[i]]] : p \in perms}

\* the labels dict as a mapping, whatever the insertion order of its keys
LabelOf(labels, aid) ==
    LET i == CHOOSE i \in 1..Len(labels) : labels[i].aid = aid IN labels[i].label

OrderNoOutput == [labels |-> <<>>, centroids |-> <<>>]

OrderIdle ==
    /\ o_pc = "idle"
    /\ o_store = <<>>
    /\ o_k = 0
    /\ o_raw = <<>>
    /\ o_article_embeddings = <<>>
    /\ o_out = OrderNoOutput
    /\ o_run = 0
    /\ o_prev = OrderNoOutput

OrderStart ==
    /\ o_pc = "start"
    /\ o_store \in OrderStores
    /\ o_k \in OrderClusterCounts
    /\ o_raw = <<>>
    /\ o_article_embeddings = <<>>
    /\ o_out = OrderNoOutput
    /\ o_run = 1
    /\ o_prev = OrderNoOutput

\* raw_chunks = get_all_chunk_embeddings(client)
OrderFetch ==
    /\ o_pc = "start"
    /\ o_raw' \in RowOrders(o_store)
    /\ o_pc' = "fetched"
    /\ UNCHANGED <<o_store, o_k, o_article_embeddings, o_out, o_run, o_prev, nonOrderVars>>

\* article_embeddings = compute_article_embeddings(raw_chunks)
OrderAggregate ==
    /\ o_pc = "fetched"
    /\ o_article_embeddings' = compute_article_embeddings(o_raw)
    /\ o_pc' = "aggregated"
    /\ UNCHANGED <<o_store, o_k, o_raw, o_out, o_run, o_prev, nonOrderVars>>

\* cluster_articles(article_embeddings, n_clusters): kmeans.fit raises
OrderClusterRaises ==
    /\ o_pc = "aggregated"
    /\ ~KMeansValid(Len(o_article_embeddings), o_k)
    /\ o_pc' = "raised"
    /\ UNCHANGED <<o_store, o_k, o_raw, o_article_embeddings, o_out, o_run, o_prev,
                   nonOrderVars>>

\* cluster_articles(article_embeddings, n_clusters) returns
OrderCluster ==
    /\ o_pc = "aggregated"
    /\ KMeansValid(Len(o_article_embeddings), o_k)
    /\ LET fit == KMeansFit(EmbeddingMatrix(o_article_embeddings), o_k)
       IN o_out' = [labels |-> ZipLabels(ArticleIdList(o_article_embeddings), fit.labels),
                    centroids |-> fit.centers]
    /\ o_pc' = "clustered"
    /\ UNCHANGED <<o_store, o_k, o_raw, o_article_embeddings, o_run, o_prev, nonOrderVars>>

\* the user presses "Run Analysis" again: same store, same slider value
OrderRunAgain ==
    /\ o_pc = "clustered"
    /\ o_run = 1
    /\ o_prev' = o_out
    /\ o_run' = 2
    /\ o_pc' = "start"
    /\ o_raw' = <<>>
    /\ o_article_embeddings' = <<>>
    /\ o_out' = OrderNoOutput
    /\ UNCHANGED <<o_store, o_k, nonOrderVars>>

OrderNext ==
    \/ OrderFetch
    \/ OrderAggregate
    \/ OrderClusterRaises
    \/ OrderCluster
    \/ OrderRunAgain

-----------------------------------------------------------------------------
(* analysis/clustering.py: _parse_cluster_response.
   A response text is the sequence of its lines after strip():
     CLUSTER  the line starts with "CLUSTER"; id is int(line.split()[-1]) when
              that conversion succeeds, and none when it raises ValueError,
     Label    the line starts with "Label:"; t is what is left after removing
              "Label:" and stripping,
     Gap      the line starts with "- "; t is line[2:].strip(),
     Other    any other line (also the empty line). *)

ClusterLine(id) == [k |-> "CLUSTER", id |-> id, t |-> ""]
LabelLine(t) == [k |-> "Label", id |-> NoneInt, t |-> t]
GapLine(t) == [k |-> "Gap", id |-> NoneInt, t |-> t]
OtherLine == [k |-> "Other", id |-> NoneInt, t |-> ""]

(* Bounds of the response-parsing model *)
MaxResponseLines == 3

HeaderIds == {0, 1, 7}
RequestedIds == {0, 1}
LabelTexts == {"", "SEO"}
GapTexts == {"gap"}

ResponseLines ==
    {ClusterLine(SomeInt(n)) : n \in HeaderIds} \cup {ClusterLine(NoneInt)}
        \cup {LabelLine(t) : t \in LabelTexts} \cup {GapLine(t) : t \in GapTexts}
        \cup {OtherLine}

\* text.split("\n") never returns an empty list
ResponseTexts == UNION {[1..n -> ResponseLines] : n \in 1..MaxResponseLines}

\* list(clusters.keys()): distinct ids in some order
ClusterIdLists ==
    {ids \in UNION {[1..n -> RequestedIds] : n \in 0..Cardinality(RequestedIds)} :
        \A i, j \in 1..Len(ids) : ids[i] = ids[j] => i = j}

\* f"Topic {cid}"
TopicLabel(cid) == "Topic " \o ToString(cid)

\* results.setdefault(current_id, {"label": "", "gaps": []})
SetDefault(results, cid) ==
    IF ClusterIndex(results, cid) = 0
    THEN Append(results, [cid |-> cid, label |-> "", gaps |-> <<>>])
    ELSE results

\* except (ValueError, IndexError): continue
BadHeader(st) == st

\* one iteration of the loop over the lines
ParseStep(st, line) ==
    IF line.k = "CLUSTER"
    THEN IF line.id = NoneInt THEN BadHeader(st)
         ELSE [st EXCEPT !.current_id = line.id]
    ELSE IF line.k = "Label" /\ st.current_id # NoneInt
    THEN LET cid == IntOf(st.current_id)
             res == SetDefault(st.results, cid)
         IN [st EXCEPT !.results = [res EXCEPT ![ClusterIndex(res, cid)].label = line.t]]
    ELSE IF line.k = "Gap" /\ st.current_id # NoneInt
    THEN LET cid == IntOf(st.current_id)
             res == SetDefault(st.results, cid)
         IN [st EXCEPT !.results =
                [res EXCEPT ![ClusterIndex(res, cid)].gaps = Append(@, line.t)]]
    ELSE st

\* the loop that fills in any missing cluster
RECURSIVE FillMissing(_, _)
FillMissing(results, cluster_ids) ==
    IF cluster_ids = <<>> THEN results
    ELSE LET cid == Head(cluster_ids)
         IN FillMissing(IF ClusterIndex(results, cid) = 0
                        THEN Append(results,
                                [cid |-> cid, label |-> TopicLabel(cid), gaps |-> <<>>])
                        ELSE results,
                        Tail(cluster_ids))

ParseEntry == [results |-> <<>>, current_id |-> NoneInt, raised |-> FALSE]

ParseIdle ==
    /\ p_pc = "idle"
    /\ p_text = <<>>
    /\ p_cluster_ids = <<>>
    /\ p_i = 0
    /\ p_st = ParseEntry

ParseStart ==
    /\ p_pc = "loop"
    /\ p_text \in ResponseTexts
    /\ p_cluster_ids \in ClusterIdLists
    /\ p_i = 0
    /\ p_st = ParseEntry

\* one line of the response is consumed; an exception leaves the function
ParseLine ==
    /\ p_pc = "loop"
    /\ p_i < Len(p_text)
    /\ p_st' = ParseStep(p_st, p_text[p_i + 1])
    /\ p_i' = p_i + 1
    /\ p_pc' = IF p_st'.raised THEN "raised" ELSE "loop"
    /\ UNCHANGED <<p_text, p_cluster_ids, nonParseVars>>

\* after the last line: missing clusters are filled in and results is returned
ParseReturn ==
    /\ p_pc = "loop"
    /\ p_i = Len(p_text)
    /\ p_st' = [p_st EXCEPT !.results = FillMissing(@, p_cluster_ids)]
    /\ p_pc' = "returned"
    /\ UNCHANGED <<p_text, p_cluster_ids, p_i, nonParseVars>>

ParseNext ==
    \/ ParseLine
    \/ ParseReturn

-----------------------------------------------------------------------------
(* ingestion/embed.py: embed_texts, one gateway request per step *)

(* Bounds of the embedding model *)
MaxTexts == 201

TextPeriods == {2, 3}

\* a list of n texts in which every p-th text is "q1" and the others are "q2"
TextList(n, p) == [i \in 1..n |-> IF i % p = 0 THEN "q1" ELSE "q2"]

TextLists == {TextList(n, p) : n \in 0..MaxTexts, p \in TextPeriods}

EmbedIdle ==
    /\ e_pc = "idle"
    /\ e_texts = <<>>
    /\ e_i = 0
    /\ e_all = <<>>
    /\ e_requests = <<>>

EmbedStart ==
    /\ e_pc = "loop"
    /\ e_texts \in TextLists
    /\ e_i = 0
    /\ e_all = <<>>
    /\ e_requests = <<>>

\* one iteration: slice, client.embeddings.create, all_embeddings.extend
EmbedRequest ==
    /\ e_pc = "loop"
    /\ e_i < Len(e_texts)
    /\ LET batch == BatchOf(e_texts, e_i)
       IN /\ e_requests' = Append(e_requests, batch)
          /\ e_all' = e_all \o GatewayCreate(batch)
    /\ e_i' = e_i + EMBEDDING_BATCH_SIZE
    /\ UNCHANGED <<e_pc, e_texts, nonEmbedVars>>

\* the range is exhausted: return all_embeddings
EmbedReturn ==
    /\ e_pc = "loop"
    /\ e_i >= Len(e_texts)
    /\ e_pc' = "returned"
    /\ UNCHANGED <<e_texts, e_i, e_all, e_requests, nonEmbedVars>>

EmbedNext ==
    \/ EmbedRequest
    \/ EmbedReturn

-----------------------------------------------------------------------------
(* Ingestion: ingestion/ingest.py (export ZIP) and ingestion/ingest_rss.py
   (feed), over the store functions of db/client.py.

   A source document is [slug, body]; a body records the markdown the HTML
   converts to (after strip), its length in characters and in UTF-8 bytes,
   and the size of the HTML file.  A file of an export also carries the
   post_date its posts.csv row names, if any: a date is a day number (the
   ISO strings of the export compare as their days do). *)

MIN_ARTICLE_BYTES == 100
MIN_MARKDOWN_CHARS == 50
UPSERT_BATCH == 5

\* n paragraphs of MAX_CHUNK_TOKENS tokens each, separated by blank lines
RECURSIVE Paragraphs(_)
Paragraphs(n) ==
    IF n = 1 THEN <<TextLine(MAX_CHUNK_TOKENS)>>
    ELSE Paragraphs(n - 1) \o <<BlankLine, TextLine(MAX_CHUNK_TOKENS)>>

TinyBody == [md |-> <<TextLine(1)>>, md_chars |-> 5, md_bytes |-> 5, html_bytes |-> 80]
WrapperBody == [md |-> <<TextLine(5)>>, md_chars |-> 20, md_bytes |-> 20, html_bytes |-> 150]
ShortBody == [md |-> <<TextLine(15)>>, md_chars |-> 60, md_bytes |-> 60, html_bytes |-> 150]
OneBody == [md |-> <<TextLine(MAX_CHUNK_TOKENS - 1)>>, md_chars |-> 4000, md_bytes |-> 4000, html_bytes |-> 5000]
SixBody == [md |-> Paragraphs(UPSERT_BATCH + 1), md_chars |-> 24000, md_bytes |-> 24000, html_bytes |-> 30000]

Slugs == {"a", "b"}
ExportBodies == {TinyBody, WrapperBody, ShortBody, OneBody, SixBody}
FeedBodies == {TinyBody, OneBody, SixBody}

(* Bounds of the ingestion model *)
MaxBatch == 2

PostDates == {NoneInt, SomeInt(1), SomeInt(2)}

ExportFiles ==
    UNION {[1..n -> [slug : Slugs, body : ExportBodies, post_date : PostDates]] : n \in 0..MaxBatch}
Feeds == UNION {[1..n -> [slug : Slugs, body : FeedBodies]] : n \in 0..MaxBatch}
MaxArticleOptions == {-1, 0, 1, 2}

EmptyDb == [articles |-> <<>>, chunks |-> {}]

(* The store's tables.  The schema is not among the source files; it is
   modelled from the data model: article ids are assigned serially on insert,
   an upsert with a conflict target replaces the row holding the same key and
   keeps its id. *)

ArticleRowIndex(db, post_id) ==
    IF \E i \in 1..Len(db.articles) : db.articles[i].post_id = post_id
    THEN CHOOSE i \in 1..Len(db.articles) : db.articles[i].post_id = post_id
    ELSE 0

ArticleRow(id, article) ==
    [id |-> id, post_id |-> article.post_id, url_slug |-> article.url_slug,
     full_text_markdown |-> article.full_text_markdown]

StoreInsertArticle(db, article) ==
    [db EXCEPT !.articles = Append(@, ArticleRow(Len(@) + 1, article))]

StoreUpsertArticle(db, article) ==
    LET i == ArticleRowIndex(db, article.post_id)
    IN IF i = 0 THEN StoreInsertArticle(db, article)
       ELSE [db EXCEPT !.articles[i] = ArticleRow(@.id, article)]

StoreUpsertChunks(db, batch) ==
    LET new == {batch[j] : j \in 1..Len(batch)}
        replaced == {c \in db.chunks : \E r \in new :
                        r.article_id = c.article_id /\ r.chunk_index = c.chunk_index}
    IN [db EXCEPT !.chunks = (@ \ replaced) \cup new]

\* a slip: insert where upsert(..., on_conflict="post_id") is meant
upsert_article_insert(db, article) == StoreInsertArticle(db, article)

\* db/client.py upsert_article: the store after the call
upsert_article(db, article) == StoreUpsertArticle(db, article)

\* result.data[0]["id"]
UpsertedId(db, article) == db.articles[ArticleRowIndex(db, article.post_id)].id

\* chunks[i : i + BATCH]; i is 0-based
UpsertBatchOf(rows, i) == SubSeq(rows, i + 1, Min(i + UPSERT_BATCH, Len(rows)))

\* a vector for a chunk text in the sequential ingestion machines, whose
\* properties do not compare vectors (the concurrent-ingestion machine lets
\* the gateway answer each request freely)
ChunkTextEmbedding(text) == IF count_tokens(text) % 2 = 0 THEN <<1, 0>> ELSE <<3, 4>>

\* embed_texts on the texts of one article's chunks (one request: the model's
\* articles have fewer than EMBEDDING_BATCH_SIZE chunks)
EmbedChunkTexts(chunk_texts) ==
    [j \in 1..Len(chunk_texts) |-> ChunkTextEmbedding(chunk_texts[j])]

\* the chunk rows built from zip(chunks, embeddings)
BuildChunkRows(article_id, chunks, embeddings) ==
    [j \in 1..Min(Len(chunks), Len(embeddings)) |->
        [article_id |-> article_id,
         chunk_index |-> chunks[j].chunk_index,
         chunk_text |-> chunks[j].chunk_text,
         heading |-> chunks[j].heading,
         token_count |-> chunks[j].token_count,
         embedding |-> embeddings[j]]]

\* the article dict both paths upsert (post_id is the slug when the export's
\* metadata names no post_id)
ArticleDict(doc) ==
    [post_id |-> doc.slug, url_slug |-> doc.slug, full_text_markdown |-> doc.body.md]

RECURSIVE SelectSeq2(_, _)
SelectSeq2(s, keep) ==
    IF s = <<>> THEN <<>>
    ELSE (IF Head(s) \in keep THEN <<Head(s)>> ELSE <<>>) \o SelectSeq2(Tail(s), keep)

\* parse_substack_export: the files that become articles, in archive order
ParsedArticles(files) ==
    SelectSeq2(files, {f \in {files[j] : j \in 1..Len(files)} :
                        /\ f.body.html_bytes >= MIN_ARTICLE_BYTES
                        /\ f.body.md_chars >= MIN_MARKDOWN_CHARS})

\* the sort key a.get("post_date") or "": the empty string sorts below every date
PostDateKey(a) == IF a.post_date = NoneInt THEN 0 ELSE IntOf(a.post_date)

\* list.sort is stable, with reverse=True too: an article goes behind the
\* articles sorted so far whose key is greater than or equal to its own
InsertNewestFirst(sorted, a) ==
    LET n == Cardinality({j \in 1..Len(sorted) : PostDateKey(sorted[j]) >= PostDateKey(a)})
    IN SubSeq(sorted, 1, n) \o <<a>> \o SubSeq(sorted, n + 1, Len(sorted))

RECURSIVE SortNewestFirstFrom(_, _)
SortNewestFirstFrom(sorted, rest) ==
    IF rest = <<>> THEN sorted
    ELSE SortNewestFirstFrom(InsertNewestFirst(sorted, Head(rest)), Tail(rest))

\* articles.sort(key=lambda a: a.get("post_date") or "", reverse=True)
SortNewestFirst(articles) == SortNewestFirstFrom(<<>>, articles)

\* parse_substack_export(zip_path): the list returned
parse_substack_export(files) == SortNewestFirst(ParsedArticles(files))

\* get_existing_slugs
ExistingSlugs(db) == {db.articles[j].url_slug : j \in 1..Len(db.articles)}

\* [a for a in feed_articles if a["slug"] not in existing]
NewArticles(feed, existing) ==
    SelectSeq2(feed, {a \in {feed[j] : j \in 1..Len(feed)} : a.slug \notin existing})

\* s[:m] of Python, for any integer m
SliceTo(s, m) ==
    IF m >= 0 THEN SubSeq(s, 1, Min(m, Len(s)))
    ELSE SubSeq(s, 1, IF Len(s) + m > 0 THEN Len(s) + m ELSE 0)

\* fetch_article_markdown when the page was fetched: the markdown, or None
FetchedMarkdown(body) == IF body.md_bytes >= MIN_ARTICLE_BYTES THEN body.md ELSE <<>>

NoLocals == [markdown |-> <<>>, article_id |-> 0, chunks |-> <<>>, rows |-> <<>>, i |-> 0]
NoFirstRun == [outcome |-> "none", db |-> EmptyDb]

\* a store that already holds article "a" with its chunks
SeededDb ==
    LET db == upsert_article(EmptyDb, ArticleDict([slug |-> "a", body |-> OneBody]))
        chunks == chunk_article(OneBody.md)
    IN StoreUpsertChunks(db, BuildChunkRows(1, chunks,
                                EmbedChunkTexts([j \in 1..Len(chunks) |-> chunks[j].chunk_text])))

IngestIdle ==
    /\ i_pc = "idle"
    /\ i_path = "none"
    /\ i_source = <<>>
    /\ i_max = 0
    /\ i_db = EmptyDb
    /\ i_db0 = EmptyDb
    /\ i_articles = <<>>
    /\ i_idx = 0
    /\ i_cur = NoLocals
    /\ i_log = <<>>
    /\ i_run = 0
    /\ i_first = NoFirstRun

IngestStart ==
    /\ i_pc = "start"
    /\ \/ i_path = "zip" /\ i_source \in ExportFiles /\ i_max = 0 /\ i_db = EmptyDb
       \/ i_path = "rss" /\ i_source \in Feeds /\ i_max \in MaxArticleOptions
            /\ i_db \in {EmptyDb, SeededDb}
    /\ i_db0 = i_db
    /\ i_articles = <<>>
    /\ i_idx = 0
    /\ i_cur = NoLocals
    /\ i_log = <<>>
    /\ i_run = 1
    /\ i_first = NoFirstRun

IngestLogged(op, kind) == Append(i_log, [op |-> op, idx |-> i_idx, kind |-> kind])

\* ingest: articles = parse_substack_export(zip_path)
ParseExport ==
    /\ i_pc = "start" /\ i_path = "zip"
    /\ i_articles' = parse_substack_export(i_source)
    /\ i_pc' = "loop"
    /\ UNCHANGED <<i_path, i_source, i_max, i_db, i_db0, i_idx, i_cur, i_log, i_run, i_first,
                   nonIngestVars>>

\* ingest_rss: get_existing_slugs, fetch_rss, the filter, the early return
\* when nothing is new, and the slice to max_articles
SelectNew ==
    /\ i_pc = "start" /\ i_path = "rss"
    /\ LET new_articles == NewArticles(i_source, ExistingSlugs(i_db))
       IN IF new_articles = <<>>
          THEN i_articles' = <<>> /\ i_pc' = "done"
          ELSE i_articles' = SliceTo(new_articles, i_max) /\ i_pc' = "loop"
    /\ UNCHANGED <<i_path, i_source, i_max, i_db, i_db0, i_idx, i_cur, i_log, i_run, i_first,
                   nonIngestVars>>

\* the for loop takes the next article
NextArticle ==
    /\ i_pc = "loop"
    /\ i_idx < Len(i_articles)
    /\ i_idx' = i_idx + 1
    /\ i_cur' = [NoLocals EXCEPT !.markdown =
                    IF i_path = "zip" THEN i_articles[i_idx + 1].body.md ELSE <<>>]
    /\ i_pc' = IF i_path = "zip" THEN "upsert_article" ELSE "fetch"
    /\ UNCHANGED <<i_path, i_source, i_max, i_db, i_db0, i_articles, i_log, i_run, i_first,
                   nonIngestVars>>

\* the for loop is exhausted
LoopEnd ==
    /\ i_pc = "loop"
    /\ i_idx = Len(i_articles)
    /\ i_pc' = "done"
    /\ i_cur' = NoLocals
    /\ UNCHANGED <<i_path, i_source, i_max, i_db, i_db0, i_articles, i_idx, i_log, i_run,
                   i_first, nonIngestVars>>

\* ingest_rss: markdown = fetch_article_markdown(stub["url"]); a failed
\* request is caught inside and gives None; None skips the article
FetchArticle ==
    /\ i_pc = "fetch"
    /\ \E fetched \in BOOLEAN :
        LET md == IF fetched THEN FetchedMarkdown(i_articles[i_idx].body) ELSE <<>>
        IN /\ i_cur' = [i_cur EXCEPT !.markdown = md]
           /\ i_log' = IngestLogged("fetch", IF fetched THEN "ok" ELSE "caught")
           /\ i_pc' = IF md = <<>> THEN "loop" ELSE "upsert_article"
    /\ UNCHANGED <<i_path, i_source, i_max, i_db, i_db0, i_articles, i_idx, i_run, i_first,
                   nonIngestVars>>

\* article_id = upsert_article(client, {...})
UpsertArticle ==
    /\ i_pc = "upsert_article"
    /\ LET article == [ArticleDict(i_articles[i_idx]) EXCEPT
                            !.full_text_markdown = i_cur.markdown]
       IN /\ i_db' = upsert_article(i_db, article)
          /\ i_cur' = [i_cur EXCEPT !.article_id = UpsertedId(i_db', article)]
    /\ i_log' = IngestLogged("upsert_article", "ok")
    /\ i_pc' = "chunk"
    /\ UNCHANGED <<i_path, i_source, i_max, i_db0, i_articles, i_idx, i_run, i_first,
                   nonIngestVars>>

\* chunks = chunk_article(markdown); if not chunks: continue
ChunkArticle ==
    /\ i_pc = "chunk"
    /\ i_cur' = [i_cur EXCEPT !.chunks = chunk_article(i_cur.markdown)]
    /\ i_log' = IngestLogged("chunk_article", "ok")
    /\ i_pc' = IF i_cur'.chunks = <<>> THEN "loop" ELSE "embed"
    /\ UNCHANGED <<i_path, i_source, i_max, i_db, i_db0, i_articles, i_idx, i_run, i_first,
                   nonIngestVars>>

\* embeddings = embed_texts([c["chunk_text"] for c in chunks]); chunk_rows
EmbedChunks ==
    /\ i_pc = "embed"
    /\ LET chunk_texts == [j \in 1..Len(i_cur.chunks) |-> i_cur.chunks[j].chunk_text]
       IN i_cur' = [i_cur EXCEPT !.rows =
                        BuildChunkRows(i_cur.article_id, i_cur.chunks,
                                       EmbedChunkTexts(chunk_texts)),
                                 !.i = 0]
    /\ i_log' = IngestLogged("embed_texts", "ok")
    /\ i_pc' = "upsert_chunks"
    /\ UNCHANGED <<i_path, i_source, i_max, i_db, i_db0, i_articles, i_idx, i_run, i_first,
                   nonIngestVars>>

\* upsert_chunks: one batch of the loop over range(0, len(chunks), BATCH)
UpsertBatch ==
    /\ i_pc = "upsert_chunks"
    /\ i_db' = StoreUpsertChunks(i_db, UpsertBatchOf(i_cur.rows, i_cur.i))
    /\ i_cur' = [i_cur EXCEPT !.i = @ + UPSERT_BATCH]
    /\ i_log' = IngestLogged("upsert_chunks", "ok")
    /\ i_pc' = IF i_cur'.i >= Len(i_cur.rows) THEN "loop" ELSE "upsert_chunks"
    /\ UNCHANGED <<i_path, i_source, i_max, i_db0, i_articles, i_idx, i_run, i_first,
                   nonIngestVars>>

FailureKinds == {"transient", "fatal"}

\* a store or gateway call raises, or the process is stopped at the call:
\* nothing catches the exception, so it leaves ingest / ingest_rss
CallFails ==
    /\ i_pc \in {"upsert_article", "embed", "upsert_chunks"}
    /\ i_run = 1
    /\ \E kind \in FailureKinds :
        i_log' = IngestLogged(IF i_pc = "embed" THEN "embed_texts" ELSE i_pc, kind)
    /\ i_pc' = "raised"
    /\ UNCHANGED <<i_path, i_source, i_max, i_db, i_db0, i_articles, i_idx, i_cur, i_run,
                   i_first, nonIngestVars>>

\* the same ingestion is run again on the same export or feed
RunAgain ==
    /\ i_pc \in {"done", "raised"}
    /\ i_run = 1
    /\ i_first' = [outcome |-> i_pc, db |-> i_db]
    /\ i_run' = 2
    /\ i_db0' = i_db
    /\ i_pc' = "start"
    /\ i_articles' = <<>>
    /\ i_idx' = 0
    /\ i_cur' = NoLocals
    /\ i_log' = <<>>
    /\ UNCHANGED <<i_path, i_source, i_max, i_db, nonIngestVars>>

IngestNext ==
    \/ ParseExport
    \/ SelectNew
    \/ NextArticle
    \/ LoopEnd
    \/ FetchArticle
    \/ UpsertArticle
    \/ ChunkArticle
    \/ EmbedChunks
    \/ UpsertBatch
    \/ CallFails
    \/ RunAgain

-----------------------------------------------------------------------------
(* Concurrent callers of find_similar_chunks (one per page session, each a
   thread of the same process).  The interpreter may switch threads between
   the read of the global _client in `if _client is None`, the construction
   of the handle, the store into _client, and the read in `return _client`. *)

(* Bounds of the concurrency model *)
MaxCallers == 2

Callers == 1..MaxCallers
ConcTables == {{}, {[article_id |-> 1, chunk_index |-> 0, embedding |-> <<1, 0>>],
                    [article_id |-> 2, chunk_index |-> 0, embedding |-> <<3, 4>>]}}
\* every caller asks for at most two rows of similarity 0.50 or more
ConcArgs == [match_count |-> CHOOSE m \in MatchCounts : \A o \in MatchCounts : m >= o,
             similarity_threshold |-> CHOOSE h \in Thresholds : \A o \in Thresholds : h <= o]

ConcIdle ==
    /\ k_pc = <<>>
    /\ k_text = <<>>
    /\ k_new = <<>>
    /\ k_local = <<>>
    /\ k_embedding = <<>>
    /\ k_result = <<>>
    /\ k_table = {}
    /\ k_client = 0
    /\ k_handles = 0
    /\ k_writes = 0

\* the process has just started: _client = None (embed.py line 5)
ConcStart ==
    /\ k_pc = [t \in Callers |-> "start"]
    /\ k_text \in [Callers -> QueryTexts]
    /\ k_new = [t \in Callers |-> 0]
    /\ k_local = [t \in Callers |-> 0]
    /\ k_embedding = [t \in Callers |-> <<>>]
    /\ k_result = [t \in Callers |-> <<>>]
    /\ k_table \in ConcTables
    /\ k_client = 0
    /\ k_handles = 0
    /\ k_writes = 0

\* find_similar_chunks -> embed_single -> embed_texts -> _get_client:
\* `if _client is None` reads the global
CheckClient(t) ==
    /\ k_pc[t] = "start"
    /\ k_pc' = [k_pc EXCEPT ![t] = IF k_client = 0 THEN "construct" ELSE "return"]
    /\ UNCHANGED <<k_text, k_new, k_local, k_embedding, k_result, k_table, k_client,
                   k_handles, k_writes, nonConcVars>>

\* OpenAI(api_key=OPENAI_API_KEY) builds a new handle
ConstructClient(t) ==
    /\ k_pc[t] = "construct"
    /\ k_handles' = k_handles + 1
    /\ k_new' = [k_new EXCEPT ![t] = k_handles + 1]
    /\ k_pc' = [k_pc EXCEPT ![t] = "assign"]
    /\ UNCHANGED <<k_text, k_local, k_embedding, k_result, k_table, k_client, k_writes,
                   nonConcVars>>

\* _client = <the new handle>: a store into the module global
AssignClient(t) ==
    /\ k_pc[t] = "assign"
    /\ k_client' = k_new[t]
    /\ k_writes' = k_writes + 1
    /\ k_pc' = [k_pc EXCEPT ![t] = "return"]
    /\ UNCHANGED <<k_text, k_new, k_local, k_embedding, k_result, k_table, k_handles,
                   nonConcVars>>

\* return _client; client = _get_client()
ReturnClient(t) ==
    /\ k_pc[t] = "return"
    /\ k_local' = [k_local EXCEPT ![t] = k_client]
    /\ k_pc' = [k_pc EXCEPT ![t] = "create"]
    /\ UNCHANGED <<k_text, k_new, k_embedding, k_result, k_table, k_client, k_handles,
                   k_writes, nonConcVars>>

\* the gateway request of embed_texts([text]); embed_single takes element 0
ConcEmbed(t) ==
    /\ k_pc[t] = "create"
    /\ k_embedding' = [k_embedding EXCEPT ![t] = GatewayCreate(BatchOf(<<k_text[t]>>, 0))[1]]
    /\ k_pc' = [k_pc EXCEPT ![t] = "rpc"]
    /\ UNCHANGED <<k_text, k_new, k_local, k_result, k_table, k_client, k_handles, k_writes,
                   nonConcVars>>

\* return match_chunks(client, embedding, ...)
ConcMatch(t) ==
    /\ k_pc[t] = "rpc"
    /\ k_result' = [k_result EXCEPT ![t] =
            MatchChunksRpc(k_table, MatchChunksParams(k_embedding[t], ConcArgs.match_count,
                                                      ConcArgs.similarity_threshold,
                                                      NoneInt))]
    /\ k_pc' = [k_pc EXCEPT ![t] = "done"]
    /\ UNCHANGED <<k_text, k_new, k_local, k_embedding, k_table, k_client, k_handles,
                   k_writes, nonConcVars>>

ConcNext ==
    \E t \in Callers :
        \/ CheckClient(t)
        \/ ConstructClient(t)
        \/ AssignClient(t)
        \/ ReturnClient(t)
        \/ ConcEmbed(t)
        \/ ConcMatch(t)

-----------------------------------------------------------------------------
(* ingestion/chunk.py: merge_small_sections called on its own *)

(* Bounds of the merge model *)
MaxSections == 3

\* token weights around half the merge threshold
SectionWeights == {1, MERGE_THRESHOLD_TOKENS \div 2, MERGE_THRESHOLD_TOKENS \div 2 + 1}

\* headings split_by_headings can produce: None, a label, and the empty label
\* of a heading line such as "##  " (group(2).strip() of a blank capture)
SectionHeadings == {None, "", "A", "B"}

SectionRecords ==
    {Section(h, <<TextLine(w)>>) : h \in SectionHeadings, w \in SectionWeights}

SectionLists == UNION {[1..n -> SectionRecords] : n \in 0..MaxSections}

MergeThresholds == {MERGE_THRESHOLD_TOKENS, 2}

MergeIdle ==
    /\ m_pc = "idle"
    /\ m_sections = <<>>
    /\ m_threshold = 0
    /\ m_input = <<>>
    /\ m_merged = <<>>

MergeStart ==
    /\ m_pc = "start"
    /\ m_sections \in SectionLists
    /\ m_threshold \in MergeThresholds
    /\ m_input = m_sections
    /\ m_merged = <<>>

\* merged = merge_small_sections(sections, threshold)
MergeCall ==
    /\ m_pc = "start"
    /\ LET r == merge_small_sections(m_sections, m_threshold)
       IN /\ m_input' = r.input
          /\ m_merged' = r.merged
    /\ m_pc' = "returned"
    /\ UNCHANGED <<m_sections, m_threshold, nonMergeVars>>

MergeNext ==
    \/ MergeCall

-----------------------------------------------------------------------------
(* ingestion/chunk.py: split_by_paragraphs called on its own, one loop
   iteration per step *)

(* Bounds of the paragraph model *)
MaxParaLines == 5

ParaLines ==
    {TextLine(1), TextLine(MAX_CHUNK_TOKENS - 1), TextLine(MAX_CHUNK_TOKENS + 1),
     BlankLine, SpaceLine}

ParaTexts == UNION {[1..n -> ParaLines] : n \in 1..MaxParaLines}

MaxTokenOptions == {MAX_CHUNK_TOKENS, 2}

ParaIdle ==
    /\ s_pc = "idle"
    /\ s_text = EmptyText
    /\ s_max_tokens = 0
    /\ s_paragraphs = <<>>
    /\ s_n = 0
    /\ s_chunks = <<>>
    /\ s_current = <<>>
    /\ s_current_tokens = 0

ParaStart ==
    /\ s_pc = "start"
    /\ s_text \in ParaTexts
    /\ s_max_tokens \in MaxTokenOptions
    /\ s_paragraphs = <<>>
    /\ s_n = 0
    /\ s_chunks = <<>>
    /\ s_current = <<>>
    /\ s_current_tokens = 0

\* paragraphs = re.split(r"\n{2,}", text); chunks = []; current = []
ParaSplit ==
    /\ s_pc = "start"
    /\ s_paragraphs' = re_split_paragraphs(s_text)
    /\ s_pc' = "loop"
    /\ UNCHANGED <<s_text, s_max_tokens, s_n, s_chunks, s_current, s_current_tokens, nonParaVars>>

\* one iteration of "for para in paragraphs"
ParaPack ==
    /\ s_pc = "loop"
    /\ s_n < Len(s_paragraphs)
    /\ LET para == s_paragraphs[s_n + 1]
           para_tokens == count_tokens(para)
       IN IF ParagraphOverflows(s_current_tokens, para_tokens, s_max_tokens)
                /\ s_current # <<>>
          THEN /\ s_chunks' = Append(s_chunks, JoinParagraphs(s_current))
               /\ s_current' = <<para>>
               /\ s_current_tokens' = para_tokens
          ELSE /\ s_current' = Append(s_current, para)
               /\ s_current_tokens' = s_current_tokens + para_tokens
               /\ UNCHANGED s_chunks
    /\ s_n' = s_n + 1
    /\ UNCHANGED <<s_pc, s_text, s_max_tokens, s_paragraphs, nonParaVars>>

\* after the loop: the last group is appended and chunks is returned
ParaReturn ==
    /\ s_pc = "loop"
    /\ s_n = Len(s_paragraphs)
    /\ s_chunks' = IF s_current # <<>>
                   THEN Append(s_chunks, JoinParagraphs(s_current))
                   ELSE s_chunks
    /\ s_pc' = "returned"
    /\ UNCHANGED <<s_text, s_max_tokens, s_paragraphs, s_n, s_current, s_current_tokens, nonParaVars>>

ParaNext ==
    \/ ParaSplit
    \/ ParaPack
    \/ ParaReturn

-----------------------------------------------------------------------------
(* The Streamlit application: app.py (home page and password gate), auth.py
   and the five page scripts.  Every run of a page script is one step; the
   user may open any page at any time.  A run is recorded as the sequence of
   its effects: store calls, service calls and rendering. *)

Effect(op) == [op |-> op, exclude |-> NoneInt]
FindSimilar(exclude_article_id) == [op |-> "find_similar_chunks", exclude |-> exclude_article_id]

Secrets == {None, "", "pw"}
Passwords == {"", "pw", "bad"}
AuthValues == {"absent", "False", "True"}

StoredArticle(id) == [id |-> id, title |-> "t", full_text_markdown |-> "x"]
ArticleTables == {<<>>, <<StoredArticle(1)>>, <<StoredArticle(1), StoredArticle(2)>>}

LinkingModes == {"Select existing article", "Paste a draft"}
DraftFields == {"", "d"}

NoInput == [password |-> "", button |-> FALSE, mode |-> "", selected |-> 0, title |-> "", text |-> "", hits |-> FALSE, fits |-> FALSE, vote |-> FALSE]

\* truthiness of APP_PASSWORD: None and "" both mean no password configured
Configured(secret) == secret # None /\ secret # ""

\* auth.py require_auth: TRUE when the page is stopped
require_auth(secret, auth) == Configured(secret) /\ auth # "True"

\* app.py check_password: the value returned, the flag afterwards, whether
\* st.rerun() was called, and what was rendered
check_password(secret, auth, password) ==
    IF ~Configured(secret)
    THEN [ok |-> TRUE, auth |-> auth, rerun |-> FALSE, effects |-> <<>>]
    ELSE LET flag == IF auth = "absent" THEN "False" ELSE auth IN
        IF flag = "True"
        THEN [ok |-> TRUE, auth |-> flag, rerun |-> FALSE, effects |-> <<>>]
        ELSE IF password # "" /\ password = secret
        THEN [ok |-> FALSE, auth |-> "True", rerun |-> TRUE, effects |-> <<Effect("gate")>>]
        ELSE IF password # ""
        THEN [ok |-> FALSE, auth |-> flag, rerun |-> FALSE, effects |-> <<Effect("gate"), Effect("error")>>]
        ELSE [ok |-> FALSE, auth |-> flag, rerun |-> FALSE, effects |-> <<Effect("gate")>>]

\* app.py after the gate: title, welcome text and the two store counts
HomeBody == <<Effect("content"), Effect("get_client"), Effect("get_article_count"), Effect("get_chunk_count")>>

\* what a stopped page shows
AuthWarning == <<Effect("warning")>>

AppIdle ==
    /\ a_secret = None
    /\ a_auth = "absent"
    /\ a_articles = <<>>
    /\ a_chunks = {}
    /\ a_results = FALSE
    /\ a_page = "none"
    /\ a_auth0 = "absent"
    /\ a_in = NoInput
    /\ a_effects = <<>>

\* a new browser session
AppStart ==
    /\ a_secret \in Secrets
    /\ a_auth = "absent"
    /\ a_articles \in ArticleTables
    /\ a_chunks \in SUBSET {a_articles[i].id : i \in 1..Len(a_articles)}
    /\ a_results = FALSE
    /\ a_page = "none"
    /\ a_auth0 = "absent"
    /\ a_in = NoInput
    /\ a_effects = <<>>

\* the last run ended in st.rerun(): the flag was set by a run of the home
\* page, and Streamlit runs app.py again before anything else happens
RerunPending ==
    /\ a_page = "home"
    /\ a_auth0 # "True"
    /\ a_auth = "True"

\* app.py: one run of the home page.  A run that reads the correct password
\* sets the flag and ends in st.rerun() with only the gate rendered; the body
\* is rendered by the run that follows
RunHome ==
    \E password \in Passwords :
        LET r == check_password(a_secret, a_auth, password) IN
        /\ a_page' = "home"
        /\ a_auth0' = a_auth
        /\ a_in' = [NoInput EXCEPT !.password = password]
        /\ a_auth' = r.auth
        /\ a_effects' = IF r.ok THEN r.effects \o HomeBody ELSE r.effects
        /\ UNCHANGED <<a_secret, a_articles, a_chunks, a_results, nonAppVars>>

\* pages/1_Article_Explorer.py
RunExplorer ==
    \E button \in BOOLEAN :
        /\ ~RerunPending
        /\ a_page' = "explorer"
        /\ a_auth0' = a_auth
        /\ a_in' = [NoInput EXCEPT !.button = button]
        /\ a_effects' =
            IF require_auth(a_secret, a_auth) THEN AuthWarning
            ELSE <<Effect("content"), Effect("get_client"), Effect("get_all_articles")>>
                \o (IF a_articles = <<>> THEN <<Effect("warning")>>
                    ELSE IF button THEN <<Effect("get_article_by_id"), Effect("content")>>
                    ELSE <<Effect("content")>>)
        /\ UNCHANGED <<a_secret, a_auth, a_articles, a_chunks, a_results, nonAppVars>>
\* the body of "if st.button('Run Analysis')" up to the session-state writes
AnalysisRun(fits) ==
    <<Effect("get_all_articles"), Effect("get_all_chunk_embeddings")>>
        \o (IF a_chunks = {} THEN <<Effect("warning")>>
            ELSE IF ~fits THEN <<Effect("exception")>>
            ELSE <<Effect("get_all_gap_feedback"), Effect("label_clusters_with_claude")>>)

\* "Render results from session state"
ResultsBody(vote) ==
    <<Effect("content")>>
        \o (IF vote THEN <<Effect("upsert_gap_feedback")>> ELSE <<>>)
        \o <<Effect("get_all_gap_feedback"), Effect("content")>>

\* pages/2_Content_Gap_Analysis.py
RunGapAnalysis ==
    \E button \in BOOLEAN, fits \in BOOLEAN, vote \in BOOLEAN :
        LET blocked == require_auth(a_secret, a_auth)
            completes == button /\ a_chunks # {} /\ fits
            stops == button /\ ~completes
            shown == ~stops /\ (a_results \/ completes)
        IN
        /\ ~RerunPending
        /\ vote => a_results
        /\ a_page' = "gaps"
        /\ a_auth0' = a_auth
        /\ a_in' = [NoInput EXCEPT !.button = button, !.fits = fits, !.vote = vote]
        /\ a_effects' =
            IF blocked THEN AuthWarning
            ELSE <<Effect("content"), Effect("get_client")>>
                \o (IF button THEN AnalysisRun(fits) ELSE <<>>)
                \o (IF shown THEN ResultsBody(vote /\ ~button) ELSE <<>>)
        /\ a_results' = IF ~blocked /\ completes THEN TRUE ELSE a_results
        /\ UNCHANGED <<a_secret, a_auth, a_articles, a_chunks, nonAppVars>>

\* the source the Internal Linking page works on after its mode branch:
\* source_title, source_text, exclude_id, and whether the run stopped there
LinkingSource(mode, selected, button, title, text) ==
    IF mode = "Select existing article"
    THEN IF a_articles = <<>>
         THEN [title |-> "", text |-> "", exclude_id |-> NoneInt, stopped |-> TRUE]
         ELSE IF button
         THEN [title |-> a_articles[selected].title,
               text |-> a_articles[selected].full_text_markdown,
               exclude_id |-> SomeInt(a_articles[selected].id), stopped |-> FALSE]
         ELSE [title |-> "", text |-> "", exclude_id |-> NoneInt, stopped |-> FALSE]
    ELSE [title |-> title, text |-> text, exclude_id |-> NoneInt, stopped |-> FALSE]

\* pages/3_Internal_Linking.py (the script does not call require_auth)
RunLinking ==
    \E mode \in LinkingModes, selected \in 0..Len(a_articles), button \in BOOLEAN,
       title \in DraftFields, text \in DraftFields, hits \in BOOLEAN :
        LET src == LinkingSource(mode, selected, button, title, text) IN
        /\ IF mode = "Select existing article"
           THEN /\ title = "" /\ text = ""
                /\ (a_articles = <<>>) = (selected = 0)
           ELSE /\ selected = 0
                /\ button => title # "" /\ text # ""
        /\ ~RerunPending
        /\ a_page' = "linking"
        /\ a_auth0' = a_auth
        /\ a_in' = [NoInput EXCEPT !.mode = mode, !.selected = selected, !.button = button,
                                   !.title = title, !.text = text, !.hits = hits]
        /\ a_effects' =
            <<Effect("content"), Effect("get_client")>>
                \o (IF mode = "Select existing article"
                    THEN <<Effect("get_all_articles")>>
                        \o (IF a_articles = <<>> THEN <<Effect("warning")>>
                            ELSE IF button THEN <<Effect("get_article_by_id")>> ELSE <<>>)
                    ELSE <<>>)
                \o (IF ~src.stopped /\ src.title # "" /\ src.text # ""
                    THEN <<FindSimilar(src.exclude_id)>>
                        \o (IF hits
                            THEN <<Effect("content"), Effect("suggest_internal_links"), Effect("content")>>
                            ELSE <<Effect("warning")>>)
                    ELSE <<>>)
        /\ UNCHANGED <<a_secret, a_auth, a_articles, a_chunks, a_results, nonAppVars>>

\* pages/4_Writing_Assistant.py
RunWriting ==
    \E button \in BOOLEAN, hits \in BOOLEAN :
        /\ ~RerunPending
        /\ a_page' = "writing"
        /\ a_auth0' = a_auth
        /\ a_in' = [NoInput EXCEPT !.button = button, !.hits = hits]
        /\ a_effects' =
            IF require_auth(a_secret, a_auth) THEN AuthWarning
            ELSE <<Effect("content"), Effect("get_client")>>
                \o (IF button
                    THEN <<FindSimilar(NoneInt), Effect("_get_style_examples")>>
                        \o (IF hits THEN <<Effect("content"), Effect("draft_article"), Effect("content")>>
                            ELSE <<Effect("warning")>>)
                    ELSE <<>>)
        /\ UNCHANGED <<a_secret, a_auth, a_articles, a_chunks, a_results, nonAppVars>>

\* pages/5_Glossary.py
RunGlossary ==
    \E button \in BOOLEAN, hits \in BOOLEAN :
        /\ ~RerunPending
        /\ a_page' = "glossary"
        /\ a_auth0' = a_auth
        /\ a_in' = [NoInput EXCEPT !.button = button, !.hits = hits]
        /\ a_effects' =
            IF require_auth(a_secret, a_auth) THEN AuthWarning
            ELSE <<Effect("content"), Effect("get_client")>>
                \o (IF button
                    THEN <<Effect("embed_single"), Effect("match_chunks")>>
                        \o (IF hits THEN <<Effect("content"), Effect("build_glossary_entry"), Effect("content")>>
                            ELSE <<Effect("warning")>>)
                    ELSE <<>>)
        /\ UNCHANGED <<a_secret, a_auth, a_articles, a_chunks, a_results, nonAppVars>>

AppNext ==
    \/ RunHome
    \/ RunExplorer
    \/ RunGapAnalysis
    \/ RunLinking
    \/ RunWriting
    \/ RunGlossary

-----------------------------------------------------------------------------
(* Repeated ingestion of the same publication: runs of ingest (an export
   ZIP) and ingest_rss (the feed) in any order, one after the other, each
   run step by step (one step per store or gateway request), so that the
   store between two requests and the store a raising run leaves behind are
   states.  The text of an article may change between runs.

   A slug or post_id string is [prefix, name]: "123.a" is ["123", "a"], "a"
   is ["", "a"] and the bare id "123" is ["123", ""]. *)

DEFAULT_MAX_ARTICLES == 20

(* Bounds of the repeated-ingestion model *)
MaxIngestions == 2

SlugStr(prefix, name) == [prefix |-> prefix, name |-> name]

\* re.sub(r"^\d+\.", "", slug): the slug the article has on the site
CleanSlug(slug) == SlugStr("", slug.name)

SourceArticles == {"a", "b"}
ReBodies == {OneBody, SixBody}

\* the number the platform gave the article
PostNumber(article) == IF article = "a" THEN "123" ELSE "456"

\* the publication and how the platform lays out its exports: whether file
\* names carry the post number ("123.a.html"), whether posts.csv has a row,
\* keyed by the post URL, that names post_id and post_date, and the day each
\* article was posted
ExportFormats == [prefixed : BOOLEAN, csv : BOOLEAN, post_date : [SourceArticles -> {1, 2}]]

\* an export file of one article with the article's body at export time
ExportFile(article, body) == [article |-> article, body |-> body]

ReExports ==
    {<<ExportFile(a, b)>> : a \in SourceArticles, b \in ReBodies}
        \cup {<<ExportFile("a", b1), ExportFile("b", b2)>> : b1 \in ReBodies, b2 \in ReBodies}

\* a feed item of one article: the slug is the last part of its link
FeedItem(article, body) == [slug |-> SlugStr("", article), body |-> body]

ReFeeds ==
    {<<FeedItem(a, b)>> : a \in SourceArticles, b \in ReBodies}
        \cup {<<FeedItem("b", b1), FeedItem("a", b2)>> : b1 \in ReBodies, b2 \in ReBodies}

\* --max of python -m ingestion.ingest_rss (default 20)
ReMaxOptions == {0, 1, DEFAULT_MAX_ARTICLES}

\* parse_substack_export: slug = Path(filename).stem
ExportStem(format, file) ==
    SlugStr(IF format.prefixed THEN PostNumber(file.article) ELSE "", file.article)

\* metadata_map.get(slug, {}): posts.csv rows are keyed by the last part of
\* the post URL, which has no numeric prefix
ExportMetaFound(format, file) ==
    format.csv /\ ExportStem(format, file) = SlugStr("", file.article)

\* the article dict parse_substack_export builds
ExportArticle(format, file) ==
    [post_id |-> IF ExportMetaFound(format, file) THEN SlugStr(PostNumber(file.article), "")
                 ELSE ExportStem(format, file),
     url_slug |-> ExportStem(format, file),
     post_date |-> IF ExportMetaFound(format, file) THEN SomeInt(format.post_date[file.article])
                   ELSE NoneInt,
     full_text_markdown |-> file.body.md]

\* parse_substack_export on an export of the publication: the dicts of the
\* files that become articles, sorted newest first
ParsedExport(format, export) ==
    LET parsed == ParsedArticles(export)
    IN SortNewestFirst([j \in 1..Len(parsed) |-> ExportArticle(format, parsed[j])])

\* the article dict ingest_rss upserts for a feed item
RssArticle(stub, md) ==
    [post_id |-> stub.slug, url_slug |-> stub.slug, full_text_markdown |-> md]

\* the chunk rows ingestion builds for an article text
ChunkRowsOf(article_id, md) ==
    LET chunks == chunk_article(md)
    IN BuildChunkRows(article_id, chunks,
            EmbedChunkTexts([j \in 1..Len(chunks) |-> chunks[j].chunk_text]))

NoRun == [path |-> "none", source |-> <<>>]

ReIdle ==
    /\ r_pc = "idle"
    /\ r_db = EmptyDb
    /\ r_count = 0
    /\ r_last = NoRun
    /\ r_format = [prefixed |-> FALSE, csv |-> FALSE, post_date |-> [a \in SourceArticles |-> 1]]
    /\ r_max = 0
    /\ r_articles = <<>>
    /\ r_idx = 0
    /\ r_cur = NoLocals
    /\ r_raised = FALSE

ReStart ==
    /\ r_pc = "ready"
    /\ r_db = EmptyDb
    /\ r_count = 0
    /\ r_last = NoRun
    /\ r_format \in ExportFormats
    /\ r_max = 0
    /\ r_articles = <<>>
    /\ r_idx = 0
    /\ r_cur = NoLocals
    /\ r_raised = FALSE

\* no run is under way: none was started yet, or the last one returned or raised
ReBetweenRuns == r_pc \in {"ready", "done", "raised"}

\* python -m ingestion.ingest <export.zip>: articles = parse_substack_export(zip_path)
ReParseExport ==
    /\ ReBetweenRuns
    /\ r_count < MaxIngestions
    /\ \E export \in ReExports :
        /\ r_articles' = ParsedExport(r_format, export)
        /\ r_last' = [path |-> "zip", source |-> export]
    /\ r_max' = 0
    /\ r_idx' = 0
    /\ r_cur' = NoLocals
    /\ r_pc' = "loop"
    /\ r_count' = r_count + 1
    /\ UNCHANGED <<r_db, r_format, r_raised, nonReVars>>

\* python -m ingestion.ingest_rss [--max N]: get_existing_slugs, fetch_rss,
\* the filter, the early return when nothing is new, the slice
ReSelectNew ==
    /\ ReBetweenRuns
    /\ r_count < MaxIngestions
    /\ \E feed \in ReFeeds, max_articles \in ReMaxOptions :
        LET new_articles == NewArticles(feed, ExistingSlugs(r_db))
        IN /\ IF new_articles = <<>>
              THEN r_articles' = <<>> /\ r_pc' = "done"
              ELSE r_articles' = SliceTo(new_articles, max_articles) /\ r_pc' = "loop"
           /\ r_last' = [path |-> "rss", source |-> feed]
           /\ r_max' = max_articles
    /\ r_idx' = 0
    /\ r_cur' = NoLocals
    /\ r_count' = r_count + 1
    /\ UNCHANGED <<r_db, r_format, r_raised, nonReVars>>

\* the for loop takes the next article
ReNextArticle ==
    /\ r_pc = "loop"
    /\ r_idx < Len(r_articles)
    /\ r_idx' = r_idx + 1
    /\ r_cur' = [NoLocals EXCEPT !.markdown =
                    IF r_last.path = "zip" THEN r_articles[r_idx + 1].full_text_markdown
                    ELSE <<>>]
    /\ r_pc' = IF r_last.path = "zip" THEN "upsert_article" ELSE "fetch"
    /\ UNCHANGED <<r_db, r_count, r_last, r_format, r_max, r_articles, r_raised, nonReVars>>

\* the for loop is exhausted: the run returns
ReLoopEnd ==
    /\ r_pc = "loop"
    /\ r_idx = Len(r_articles)
    /\ r_pc' = "done"
    /\ r_cur' = NoLocals
    /\ UNCHANGED <<r_db, r_count, r_last, r_format, r_max, r_articles, r_idx, r_raised, nonReVars>>

\* ingest_rss: markdown = fetch_article_markdown(stub["url"]); a failed
\* request is caught inside and gives None; None skips the article
ReFetchArticle ==
    /\ r_pc = "fetch"
    /\ \E fetched \in BOOLEAN :
        LET md == IF fetched THEN FetchedMarkdown(r_articles[r_idx].body) ELSE <<>>
        IN /\ r_cur' = [r_cur EXCEPT !.markdown = md]
           /\ r_pc' = IF md = <<>> THEN "loop" ELSE "upsert_article"
    /\ UNCHANGED <<r_db, r_count, r_last, r_format, r_max, r_articles, r_idx, r_raised, nonReVars>>

\* article_id = upsert_article(client, {...})
ReUpsertArticle ==
    /\ r_pc = "upsert_article"
    /\ LET article == IF r_last.path = "zip" THEN r_articles[r_idx]
                      ELSE RssArticle(r_articles[r_idx], r_cur.markdown)
       IN /\ r_db' = upsert_article(r_db, article)
          /\ r_cur' = [r_cur EXCEPT !.article_id = UpsertedId(r_db', article)]
    /\ r_pc' = "chunk"
    /\ UNCHANGED <<r_count, r_last, r_format, r_max, r_articles, r_idx, r_raised, nonReVars>>

\* chunks = chunk_article(markdown); if not chunks: continue
ReChunkArticle ==
    /\ r_pc = "chunk"
    /\ r_cur' = [r_cur EXCEPT !.chunks = chunk_article(r_cur.markdown)]
    /\ r_pc' = IF r_cur'.chunks = <<>> THEN "loop" ELSE "embed"
    /\ UNCHANGED <<r_db, r_count, r_last, r_format, r_max, r_articles, r_idx, r_raised, nonReVars>>

\* embeddings = embed_texts([c["chunk_text"] for c in chunks]); chunk_rows
ReEmbedChunks ==
    /\ r_pc = "embed"
    /\ r_cur' = [r_cur EXCEPT !.rows = ChunkRowsOf(r_cur.article_id, r_cur.markdown), !.i = 0]
    /\ r_pc' = "upsert_chunks"
    /\ UNCHANGED <<r_db, r_count, r_last, r_format, r_max, r_articles, r_idx, r_raised, nonReVars>>

\* upsert_chunks: one batch of the loop over range(0, len(chunks), BATCH)
ReUpsertBatch ==
    /\ r_pc = "upsert_chunks"
    /\ r_db' = StoreUpsertChunks(r_db, UpsertBatchOf(r_cur.rows, r_cur.i))
    /\ r_cur' = [r_cur EXCEPT !.i = @ + UPSERT_BATCH]
    /\ r_pc' = IF r_cur'.i >= Len(r_cur.rows) THEN "loop" ELSE "upsert_chunks"
    /\ UNCHANGED <<r_count, r_last, r_format, r_max, r_articles, r_idx, r_raised, nonReVars>>

\* a store or gateway request raises: nothing catches the exception, the run
\* ends with what it has written so far
ReCallFails ==
    /\ r_pc \in {"upsert_article", "embed", "upsert_chunks"}
    /\ r_pc' = "raised"
    /\ r_raised' = TRUE
    /\ UNCHANGED <<r_db, r_count, r_last, r_format, r_max, r_articles, r_idx, r_cur, nonReVars>>

ReNext ==
    \/ ReParseExport
    \/ ReSelectNew
    \/ ReNextArticle
    \/ ReLoopEnd
    \/ ReFetchArticle
    \/ ReUpsertArticle
    \/ ReChunkArticle
    \/ ReEmbedChunks
    \/ ReUpsertBatch
    \/ ReCallFails

(* Concurrent ingestion: two ingesters, each running ingest (an export ZIP
   holding one document) or ingest_rss (a feed holding one item) on a
   document of the publication, over one store.  The ingesters' requests
   interleave in any order, a request may raise, and each ingester runs its
   command a second time on the same unchanged document (a repeat, or the
   retry of a run that raised).

   The embedding gateway is an external collaborator.  Each request returns
   some vector for each text (equal texts of one request get equal vectors);
   x_answers keeps every (text, vector) pair returned so far. *)

Ingesters == {"p", "q"}
IngestPaths == {"zip", "rss"}
\* the documents of the publication: one longer than a write batch, one short
InterBody(slug) == IF slug = "a" THEN SixBody ELSE OneBody
GatewayVectors == {<<1, 0>>, <<3, 4>>}

\* client.embeddings.create(input=batch): the responses the gateway can give
GatewayResponses(chunk_texts) ==
    LET texts == {chunk_texts[j] : j \in 1..Len(chunk_texts)}
    IN {[j \in 1..Len(chunk_texts) |-> m[chunk_texts[j]]] : m \in [texts -> GatewayVectors]}

\* the gateway has so far answered equal texts with equal vectors
GatewayConsistent(answers) ==
    \A a, b \in answers : a.text = b.text => a.vector = b.vector

IdleIngester ==
    [pc |-> "idle", path |-> "none", slug |-> "a", run |-> 0, first |-> "none",
     existing |-> {}, cur |-> NoLocals]

InterIdle ==
    /\ x_db = EmptyDb
    /\ x_proc = [p \in Ingesters |-> IdleIngester]
    /\ x_answers = {}
    /\ x_interleaved = FALSE

InterStart ==
    /\ x_db = EmptyDb
    /\ x_proc \in [Ingesters -> [pc : {"start"}, path : IngestPaths, slug : Slugs, run : {1},
                                 first : {"none"}, existing : {{}}, cur : {NoLocals}]]
    /\ x_answers = {}
    /\ x_interleaved = FALSE

\* the document ingester p works on, as a file of its export or an item of its feed
InterFile(p) ==
    [slug |-> x_proc[p].slug, body |-> InterBody(x_proc[p].slug), post_date |-> NoneInt]
InterItem(p) == [slug |-> x_proc[p].slug, body |-> InterBody(x_proc[p].slug)]

\* another ingester has written the article row of a different document and
\* not yet the last of its chunk rows
OtherMidDocument(p) ==
    \E q \in Ingesters \ {p} :
        /\ x_proc[q].pc \in {"embed", "upsert_chunks"}
        /\ x_proc[q].slug # x_proc[p].slug

\* ingest: client = get_client(); articles = parse_substack_export(zip_path);
\* the loop takes the article, or ends at once and goes to the final counts
InterParseExport(p) ==
    /\ x_proc[p].pc = "start" /\ x_proc[p].path = "zip"
    /\ LET articles == parse_substack_export(<<InterFile(p)>>)
       IN x_proc' = [x_proc EXCEPT ![p].pc = IF articles = <<>> THEN "count_articles"
                                             ELSE "upsert_article",
                                   ![p].cur = [NoLocals EXCEPT !.markdown =
                                                IF articles = <<>> THEN <<>> ELSE articles[1].body.md]]
    /\ UNCHANGED <<x_db, x_answers, x_interleaved, nonInterVars>>

\* ingest_rss: client = get_client(); existing = get_existing_slugs(client)
InterGetExistingSlugs(p) ==
    /\ x_proc[p].pc = "start" /\ x_proc[p].path = "rss"
    /\ x_proc' = [x_proc EXCEPT ![p].pc = "count_existing",
                                ![p].existing = ExistingSlugs(x_db),
                                ![p].cur = NoLocals]
    /\ UNCHANGED <<x_db, x_answers, x_interleaved, nonInterVars>>

\* ingest_rss: print(f"Database has {get_article_count(client)} articles. ...")
InterCountExisting(p) ==
    /\ x_proc[p].pc = "count_existing"
    /\ x_proc' = [x_proc EXCEPT ![p].pc = "feed"]
    /\ UNCHANGED <<x_db, x_answers, x_interleaved, nonInterVars>>

\* ingest_rss: feed_articles = fetch_rss(); the filter against the slugs read
\* at the start, the early return when nothing is new, the slice; the loop
\* takes the item
InterFetchRss(p) ==
    /\ x_proc[p].pc = "feed"
    /\ LET new_articles == SliceTo(NewArticles(<<InterItem(p)>>, x_proc[p].existing),
                                   DEFAULT_MAX_ARTICLES)
       IN x_proc' = [x_proc EXCEPT ![p].pc = IF new_articles = <<>> THEN "done" ELSE "fetch"]
    /\ UNCHANGED <<x_db, x_answers, x_interleaved, nonInterVars>>

\* ingest_rss: markdown = fetch_article_markdown(stub["url"]); a failed
\* request is caught inside and gives None; None skips the article, the loop
\* ends and the final count follows
InterFetchArticle(p) ==
    /\ x_proc[p].pc = "fetch"
    /\ \E fetched \in BOOLEAN :
        LET md == IF fetched THEN FetchedMarkdown(InterItem(p).body) ELSE <<>>
        IN x_proc' = [x_proc EXCEPT ![p].pc = IF md = <<>> THEN "count_articles"
                                              ELSE "upsert_article",
                                    ![p].cur.markdown = md]
    /\ UNCHANGED <<x_db, x_answers, x_interleaved, nonInterVars>>

\* article_id = upsert_article(client, {...})
InterUpsertArticle(p) ==
    /\ x_proc[p].pc = "upsert_article"
    /\ LET article == [ArticleDict(InterItem(p)) EXCEPT
                            !.full_text_markdown = x_proc[p].cur.markdown]
       IN /\ x_db' = upsert_article(x_db, article)
          /\ x_proc' = [x_proc EXCEPT ![p].pc = "embed",
                                      ![p].cur.article_id = UpsertedId(x_db', article)]
    /\ x_interleaved' = (x_interleaved \/ OtherMidDocument(p))
    /\ UNCHANGED <<x_answers, nonInterVars>>

\* chunks = chunk_article(markdown); if not chunks: continue; (no more than
\* EMBEDDING_BATCH_SIZE chunks here, so embed_texts makes one request)
\* embeddings = embed_texts([c["chunk_text"] for c in chunks]); chunk_rows
InterEmbedChunks(p) ==
    /\ x_proc[p].pc = "embed"
    /\ LET chunks == chunk_article(x_proc[p].cur.markdown)
           chunk_texts == [j \in 1..Len(chunks) |-> chunks[j].chunk_text]
       IN IF chunks = <<>>
          THEN /\ x_proc' = [x_proc EXCEPT ![p].pc = "count_articles"]
               /\ UNCHANGED x_answers
          ELSE \E embeddings \in GatewayResponses(chunk_texts) :
                /\ x_proc' = [x_proc EXCEPT
                                ![p].pc = "upsert_chunks",
                                ![p].cur.chunks = chunks,
                                ![p].cur.rows = BuildChunkRows(x_proc[p].cur.article_id,
                                                               chunks, embeddings),
                                ![p].cur.i = 0]
                /\ x_answers' = x_answers \cup
                        {[text |-> chunk_texts[j], vector |-> embeddings[j]] :
                            j \in 1..Len(chunks)}
    /\ UNCHANGED <<x_db, x_interleaved, nonInterVars>>

\* upsert_chunks: one batch of the loop over range(0, len(chunks), BATCH);
\* after the last batch the loop over the articles ends
InterUpsertBatch(p) ==
    /\ x_proc[p].pc = "upsert_chunks"
    /\ x_db' = StoreUpsertChunks(x_db, UpsertBatchOf(x_proc[p].cur.rows, x_proc[p].cur.i))
    /\ x_proc' = [x_proc EXCEPT
                    ![p].cur.i = @ + UPSERT_BATCH,
                    ![p].pc = IF x_proc[p].cur.i + UPSERT_BATCH >= Len(x_proc[p].cur.rows)
                              THEN "count_articles" ELSE "upsert_chunks"]
    /\ x_interleaved' = (x_interleaved \/ OtherMidDocument(p))
    /\ UNCHANGED <<x_answers, nonInterVars>>

\* after the loop: get_article_count(client), printed; ingest goes on to
\* count the chunks, ingest_rss returns
InterCountArticles(p) ==
    /\ x_proc[p].pc = "count_articles"
    /\ x_proc' = [x_proc EXCEPT ![p].pc = IF x_proc[p].path = "zip" THEN "count_chunks"
                                          ELSE "done"]
    /\ UNCHANGED <<x_db, x_answers, x_interleaved, nonInterVars>>

\* ingest: final_chunks = get_chunk_count(client), printed
InterCountChunks(p) ==
    /\ x_proc[p].pc = "count_chunks"
    /\ x_proc' = [x_proc EXCEPT ![p].pc = "done"]
    /\ UNCHANGED <<x_db, x_answers, x_interleaved, nonInterVars>>

\* the positions at which an ingester waits for a store, feed or gateway
\* request that nothing catches when it raises (fetch_article_markdown
\* catches its own)
InterRequests ==
    {"count_existing", "feed", "upsert_article", "embed", "upsert_chunks",
     "count_articles", "count_chunks"}

\* a request raises: the run ends with what it has written so far
InterCallFails(p) ==
    /\ \/ x_proc[p].pc \in InterRequests
       \/ x_proc[p].pc = "start" /\ x_proc[p].path = "rss"
    /\ x_proc' = [x_proc EXCEPT ![p].pc = "raised"]
    /\ UNCHANGED <<x_db, x_answers, x_interleaved, nonInterVars>>

\* every chunk row of the ingester's document was written in this run
InterIngested(p) ==
    /\ x_proc[p].cur.rows # <<>>
    /\ x_proc[p].cur.i >= Len(x_proc[p].cur.rows)

\* the ingester runs its command again on the same export or feed; first
\* records how its first run ended
InterRunAgain(p) ==
    /\ x_proc[p].pc \in {"done", "raised"}
    /\ x_proc[p].run = 1
    /\ x_proc' = [x_proc EXCEPT
                    ![p].first = IF InterIngested(p) THEN "ingested"
                                 ELSE IF x_proc[p].pc = "raised" THEN "raised"
                                 ELSE "skipped",
                    ![p].run = 2,
                    ![p].pc = "start",
                    ![p].existing = {},
                    ![p].cur = NoLocals]
    /\ UNCHANGED <<x_db, x_answers, x_interleaved, nonInterVars>>

InterNext ==
    \E p \in Ingesters :
        \/ InterParseExport(p)
        \/ InterGetExistingSlugs(p)
        \/ InterCountExisting(p)
        \/ InterFetchRss(p)
        \/ InterFetchArticle(p)
        \/ InterUpsertArticle(p)
        \/ InterEmbedChunks(p)
        \/ InterUpsertBatch(p)
        \/ InterCountArticles(p)
        \/ InterCountChunks(p)
        \/ InterCallFails(p)
        \/ InterRunAgain(p)

-----------------------------------------------------------------------------
(* Specifications *)

ChunkInit == ChunkStart /\ RetrIdle /\ ClusIdle /\ GapIdle /\ OrderIdle /\ ParseIdle /\ EmbedIdle /\ IngestIdle /\ ConcIdle /\ MergeIdle /\ ParaIdle /\ AppIdle /\ ReIdle /\ InterIdle
ChunkSpec == ChunkInit /\ [][ChunkNext]_vars

RetrInit == RetrStart /\ ChunkIdle /\ ClusIdle /\ GapIdle /\ OrderIdle /\ ParseIdle /\ EmbedIdle /\ IngestIdle /\ ConcIdle /\ MergeIdle /\ ParaIdle /\ AppIdle /\ ReIdle /\ InterIdle
RetrSpec == RetrInit /\ [][RetrNext]_vars

ClusInit == ClusStart /\ ChunkIdle /\ RetrIdle /\ GapIdle /\ OrderIdle /\ ParseIdle /\ EmbedIdle /\ IngestIdle /\ ConcIdle /\ MergeIdle /\ ParaIdle /\ AppIdle /\ ReIdle /\ InterIdle
ClusSpec == ClusInit /\ [][ClusNext]_vars

GapInit == GapStart /\ ChunkIdle /\ RetrIdle /\ ClusIdle /\ OrderIdle /\ ParseIdle /\ EmbedIdle /\ IngestIdle /\ ConcIdle /\ MergeIdle /\ ParaIdle /\ AppIdle /\ ReIdle /\ InterIdle
GapSpec == GapInit /\ [][GapNext]_vars

OrderInit == OrderStart /\ ChunkIdle /\ RetrIdle /\ ClusIdle /\ GapIdle /\ ParseIdle /\ EmbedIdle /\ IngestIdle /\ ConcIdle /\ MergeIdle /\ ParaIdle /\ AppIdle /\ ReIdle /\ InterIdle
OrderSpec == OrderInit /\ [][OrderNext]_vars

ParseInit == ParseStart /\ ChunkIdle /\ RetrIdle /\ ClusIdle /\ GapIdle /\ OrderIdle /\ EmbedIdle /\ IngestIdle /\ ConcIdle /\ MergeIdle /\ ParaIdle /\ AppIdle /\ ReIdle /\ InterIdle
ParseSpec == ParseInit /\ [][ParseNext]_vars

EmbedInit == EmbedStart /\ ChunkIdle /\ RetrIdle /\ ClusIdle /\ GapIdle /\ OrderIdle /\ ParseIdle /\ IngestIdle /\ ConcIdle /\ MergeIdle /\ ParaIdle /\ AppIdle /\ ReIdle /\ InterIdle
EmbedSpec == EmbedInit /\ [][EmbedNext]_vars

IngestInit == IngestStart /\ ChunkIdle /\ RetrIdle /\ ClusIdle /\ GapIdle /\ OrderIdle /\ ParseIdle /\ EmbedIdle /\ ConcIdle /\ MergeIdle /\ ParaIdle /\ AppIdle /\ ReIdle /\ InterIdle
IngestSpec == IngestInit /\ [][IngestNext]_vars

ConcInit == ConcStart /\ ChunkIdle /\ RetrIdle /\ ClusIdle /\ GapIdle /\ OrderIdle /\ ParseIdle /\ EmbedIdle /\ IngestIdle /\ MergeIdle /\ ParaIdle /\ AppIdle /\ ReIdle /\ InterIdle
ConcSpec == ConcInit /\ [][ConcNext]_vars

MergeInit == MergeStart /\ ChunkIdle /\ RetrIdle /\ ClusIdle /\ GapIdle /\ OrderIdle /\ ParseIdle /\ EmbedIdle /\ IngestIdle /\ ConcIdle /\ ParaIdle /\ AppIdle /\ ReIdle /\ InterIdle
MergeSpec == MergeInit /\ [][MergeNext]_vars

ParaInit == ParaStart /\ ChunkIdle /\ RetrIdle /\ ClusIdle /\ GapIdle /\ OrderIdle /\ ParseIdle /\ EmbedIdle /\ IngestIdle /\ ConcIdle /\ MergeIdle /\ AppIdle /\ ReIdle /\ InterIdle
ParaSpec == ParaInit /\ [][ParaNext]_vars

AppInit == AppStart /\ ChunkIdle /\ RetrIdle /\ ClusIdle /\ GapIdle /\ OrderIdle /\ ParseIdle /\ EmbedIdle /\ IngestIdle /\ ConcIdle /\ MergeIdle /\ ParaIdle /\ ReIdle /\ InterIdle
AppSpec == AppInit /\ [][AppNext]_vars

ReInit == ReStart /\ ChunkIdle /\ RetrIdle /\ ClusIdle /\ GapIdle /\ OrderIdle /\ ParseIdle /\ EmbedIdle /\ IngestIdle /\ ConcIdle /\ MergeIdle /\ ParaIdle /\ AppIdle /\ InterIdle
ReSpec == ReInit /\ [][ReNext]_vars

InterInit == InterStart /\ ChunkIdle /\ RetrIdle /\ ClusIdle /\ GapIdle /\ OrderIdle /\ ParseIdle /\ EmbedIdle /\ IngestIdle /\ ConcIdle /\ MergeIdle /\ ParaIdle /\ AppIdle /\ ReIdle
InterSpec == InterInit /\ [][InterNext]_vars

-----------------------------------------------------------------------------
(* Properties of the chunker *)

\* the non-blank lines of a text: its content once whitespace is collapsed
Content(text) == SelectSeq(text, LAMBDA l : ~IsBlankLine(l))

RECURSIVE ConcatChunkTexts(_)
ConcatChunkTexts(chunks) ==
    IF chunks = <<>> THEN <<>>
    ELSE Head(chunks).chunk_text \o ConcatChunkTexts(Tail(chunks))

WhitespaceOnly(text) == \A i \in 1..Len(text) : IsBlankLine(text[i])

\* C1: the chunk_index values of the returned list are 0, 1, ..., n-1 in list
\* order, also when an intermediate chunk was dropped as empty after stripping.
C1_ContiguousIndices ==
    pc = "done" => \A i \in 1..Len(result) : result[i].chunk_index = i - 1

\* C2: every returned chunk has token_count <= MAX_CHUNK_TOKENS unless it is a
\* single paragraph that alone exceeds the budget; token_count counts the
\* joined chunk text, blank-line joiners included.
C2_TokenBudget ==
    pc = "done" =>
        \A i \in 1..Len(result) :
            \/ result[i].token_count <= MAX_CHUNK_TOKENS
            \/ Len(re_split_paragraphs(result[i].chunk_text)) = 1

\* C3: the chunk texts concatenated in index order, whitespace collapsed,
\* reproduce the content of the input, heading lines included.
C3_ContentPreserved ==
    pc = "done" => Content(ConcatChunkTexts(result)) = Content(markdown)

\* C4: a call of chunk_article leaves its input text unmodified,
\* merge_small_sections leaves the section records it is handed unmodified,
\* and a second call on the same text, started with everything the first call
\* left behind still in place, returns the list the first call returned.
C4_PureAndIdempotent ==
    [][/\ markdown' = markdown
       /\ (pc = "sectioned" => sections' = sections)
       /\ (pc' = "done" /\ call' = 2 => result' = prev_result)]_vars

\* C4 witness: the second call has returned a list of several chunks, after
\* a merge of several sections
C4_Witness ==
    /\ pc = "done"
    /\ call = 2
    /\ Len(sections) >= 2
    /\ Len(merged) < Len(sections)
    /\ Len(result) >= 2
    /\ result = prev_result

\* C5: the result is empty for an empty or whitespace-only text and non-empty
\* for every text holding a non-whitespace character.
C5_EmptyIffWhitespace ==
    pc = "done" => (result = <<>> <=> WhitespaceOnly(markdown))

\* C5 witness: a whitespace-only text of several lines was chunked to nothing
C5_Witness ==
    /\ pc = "done"
    /\ Len(markdown) >= 3
    /\ WhitespaceOnly(markdown)
    /\ \E i \in 1..Len(markdown) : markdown[i].k = "W"
    /\ result = <<>>

-----------------------------------------------------------------------------
(* Properties of retrieval *)

ExcludedRows(table, aid) == {r \in table : r.article_id = aid}

\* C6: the rows find_similar_chunks returns are sorted by non-increasing
\* similarity, none has a similarity below similarity_threshold, none belongs
\* to exclude_article_id when it is supplied, and there are at most match_count.
C6_RetrievalContract ==
    q_pc = "done" =>
        /\ \A i \in 1..(Len(q_result) - 1) :
                q_result[i].similarity >= q_result[i + 1].similarity
        /\ \A i \in 1..Len(q_result) :
                /\ q_result[i].similarity >= q_args.similarity_threshold
                /\ q_args.exclude_article_id # NoneInt
                        => q_result[i].article_id # IntOf(q_args.exclude_article_id)
        /\ Len(q_result) <= q_args.match_count

\* C6 witness: a call with an exclusion that had eligible rows to exclude and
\* rows under the threshold, returning two rows of different similarity
C6_Witness ==
    /\ q_pc = "done"
    /\ q_args.exclude_article_id # NoneInt
    /\ \E r \in ExcludedRows(chunks_table, IntOf(q_args.exclude_article_id)) :
            CosineSimilarity(q_embedding, r.embedding) >= q_args.similarity_threshold
    /\ \E r \in chunks_table :
            CosineSimilarity(q_embedding, r.embedding) < q_args.similarity_threshold
    /\ Len(q_result) = 2
    /\ q_result[1].similarity > q_result[2].similarity

-----------------------------------------------------------------------------
(* Properties of aggregation and clustering *)

InputArticleIds == {c_chunks[j].article_id : j \in 1..Len(c_chunks)}

RowsOf(aid) == SelectSeq(c_chunks, LAMBDA c : c.article_id = aid)

RECURSIVE IntSum(_, _)
IntSum(rows, d) ==
    IF rows = <<>> THEN 0 ELSE Head(rows).embedding[d] + IntSum(Tail(rows), d)

\* C7: compute_article_embeddings returns one entry for exactly the article
\* ids owning a chunk; an entry's chunks are the input rows of that article in
\* input order and its embedding is the componentwise mean of their vectors.
C7_AggregateMean ==
    c_pc \in {"aggregated", "clustered", "raised"} =>
        /\ {c_article_embeddings[i].aid : i \in 1..Len(c_article_embeddings)}
                = InputArticleIds
        /\ Len(c_article_embeddings) = Cardinality(InputArticleIds)
        /\ \A i \in 1..Len(c_article_embeddings) :
            LET e == c_article_embeddings[i] IN
                /\ e.chunks = RowsOf(e.aid)
                /\ \A d \in Dim :
                    e.embedding[d].num * Len(RowsOf(e.aid))
                        = IntSum(RowsOf(e.aid), d) * e.embedding[d].den

\* C7 witness: an article whose two rows differ and are not adjacent in the input
C7_Witness ==
    /\ c_pc = "aggregated"
    /\ Len(c_chunks) = 3
    /\ c_chunks[1].article_id = c_chunks[3].article_id
    /\ c_chunks[1].article_id # c_chunks[2].article_id
    /\ c_chunks[1].embedding # c_chunks[3].embedding
    /\ Len(c_article_embeddings) = 2

\* C8: for a non-empty map and 1 <= k <= number of articles, cluster_articles
\* returns labels whose key set is the input article ids, each value one
\* integer in [0, k), and exactly k centroids.
C8_ClusterAssignment ==
    (/\ c_pc \in {"clustered", "raised"}
     /\ 1 <= c_k
     /\ c_k <= Len(c_article_embeddings)) =>
        /\ c_pc = "clustered"
        /\ {c_labels[i].aid : i \in 1..Len(c_labels)} = InputArticleIds
        /\ Len(c_labels) = Cardinality(InputArticleIds)
        /\ \A i \in 1..Len(c_labels) : c_labels[i].label \in 0..(c_k - 1)
        /\ Len(c_centroids) = c_k

\* C8 witness: three articles clustered into two clusters, both in use
C8_Witness ==
    /\ c_pc = "clustered"
    /\ c_k = 2
    /\ Len(c_article_embeddings) = 3
    /\ {c_labels[i].label : i \in 1..Len(c_labels)} = {0, 1}

\* C9: with n_clusters greater than the number of articles cluster_articles
\* raises before any centroid is computed: no labels, no centroids.
C9_TooManyClustersRaises ==
    (c_pc \in {"clustered", "raised"} /\ c_k > Len(c_article_embeddings)) =>
        /\ c_pc = "raised"
        /\ c_labels = <<>>
        /\ c_centroids = <<>>

\* C9 witness: two articles, three clusters asked for, and the call raised
C9_Witness ==
    /\ c_pc = "raised"
    /\ Len(c_article_embeddings) = 2
    /\ c_k = 3

-----------------------------------------------------------------------------
(* Properties of the content-gap analysis run *)

StoreReads == <<"get_all_articles", "get_all_chunk_embeddings">>

\* C10 (as stated): a clustering configuration error blocks the run before any
\* external call is made: no store query, projection or label-service call
\* precedes the error.
C10_NoCallBeforeError ==
    g_pc = "error" => g_calls = <<>>

\* C10 (amended): a clustering configuration error (k greater than the number
\* of documents) is raised after the two store reads that load the articles
\* and the chunk embeddings and blocks the run before any projection, feedback
\* query, label-service call or session-state write.
C10_ErrorBlocksLaterCalls ==
    /\ g_pc = "error" => g_calls = StoreReads
    /\ (g_pc \in {"error", "clustered", "projected", "feedback_loaded", "render", "rendered"}
            /\ g_article_embeddings # <<>>
            /\ g_n_clusters > Len(g_article_embeddings))
        => (/\ g_pc = "error"
            /\ g_clustering = <<>>
            /\ g_cluster_titles = <<>>)

\* C10 witness: a run over a non-empty store ended with the clustering error
C10_Witness ==
    /\ g_pc = "error"
    /\ Len(g_article_embeddings) >= SLIDER_MIN
    /\ g_n_clusters > Len(g_article_embeddings)

-----------------------------------------------------------------------------
(* Properties of repeated analysis runs *)

\* C11: two analysis runs over the same stored chunk rows with the same k give
\* every article the same cluster label and give the same centroids, whatever
\* order the store returned the rows in.
C11_OrderIndependent ==
    (o_pc = "clustered" /\ o_run = 2) =>
        /\ \A i \in 1..Len(o_out.labels) :
              LabelOf(o_prev.labels, o_out.labels[i].aid) = o_out.labels[i].label
        /\ o_out.centroids = o_prev.centroids

-----------------------------------------------------------------------------
(* Properties of _parse_cluster_response *)

\* the position of the nearest CLUSTER header line before line j, or 0
NearestHeader(text, j) ==
    IF \E i \in 1..(j - 1) : text[i].k = "CLUSTER"
    THEN CHOOSE i \in 1..(j - 1) :
            /\ text[i].k = "CLUSTER"
            /\ \A m \in (i + 1)..(j - 1) : text[m].k # "CLUSTER"
    ELSE 0

\* the lines of the given kind that belong to cluster cid, in order
LinesOf(text, kind, cid) ==
    SelectSeq([j \in 1..Len(text) |-> j],
              LAMBDA j : /\ text[j].k = kind
                         /\ NearestHeader(text, j) # 0
                         /\ text[NearestHeader(text, j)].id = SomeInt(cid))

\* the response holds a block for cid: a Label or gap line whose nearest
\* preceding CLUSTER header names cid
HasBlock(text, cid) ==
    LinesOf(text, "Label", cid) # <<>> \/ LinesOf(text, "Gap", cid) # <<>>

\* C12: _parse_cluster_response never raises; its result holds every input
\* cluster id, and an id without a parseable block in the response maps to
\* the placeholder label "Topic <id>" with an empty gap list.
C12_ParseTotal ==
    /\ p_pc # "raised"
    /\ p_pc = "returned" =>
        \A n \in 1..Len(p_cluster_ids) :
            LET cid == p_cluster_ids[n]
                i == ClusterIndex(p_st.results, cid)
            IN /\ i # 0
               /\ ~HasBlock(p_text, cid) =>
                    /\ p_st.results[i].label = TopicLabel(cid)
                    /\ p_st.results[i].gaps = <<>>

-----------------------------------------------------------------------------
(* Properties of embed_texts *)

CeilDiv(n, d) == (n + d - 1) \div d

\* C13: for n texts embed_texts makes ceil(n / EMBEDDING_BATCH_SIZE) gateway
\* requests, the r-th carrying the r-th consecutive slice of at most
\* EMBEDDING_BATCH_SIZE texts, and returns n vectors, the i-th being the
\* embedding of the i-th text; for n = 0 no request is made and the result is
\* empty.
C13_BatchedInOrder ==
    e_pc = "returned" =>
        LET n == Len(e_texts) IN
        /\ Len(e_requests) = CeilDiv(n, EMBEDDING_BATCH_SIZE)
        /\ \A r \in 1..Len(e_requests) :
              /\ Len(e_requests[r]) <= EMBEDDING_BATCH_SIZE
              /\ e_requests[r] =
                    SubSeq(e_texts, (r - 1) * EMBEDDING_BATCH_SIZE + 1,
                           Min(r * EMBEDDING_BATCH_SIZE, n))
        /\ Len(e_all) = n
        /\ \A i \in 1..n : e_all[i] = GatewayEmbedding(e_texts[i])
        /\ e_all = embed_texts(e_texts)
        /\ n = 0 => (e_requests = <<>> /\ e_all = <<>>)

\* more than two full batches of differing texts have been embedded
C13_Witness ==
    /\ e_pc = "returned"
    /\ Len(e_texts) > 2 * EMBEDDING_BATCH_SIZE
    /\ Len(e_requests) = 3
    /\ Len(e_requests[3]) < EMBEDDING_BATCH_SIZE
    /\ e_all[1] # e_all[2]

-----------------------------------------------------------------------------
(* Properties of ingestion *)

\* C15: a collaborator failure while one document is processed does not abort
\* the batch: every later document is still processed (so an exception can
\* leave the run only at the last document).
C15_FailureIsolated ==
    i_pc = "raised" => i_idx = Len(i_articles)

StoreCalls == {"upsert_article", "upsert_chunks"}

\* C16: a store call that fails with a transient error is retried (the
\* exception that leaves the run follows at least one retry of the same call),
\* and a non-retryable failure ends the run at once.  (The gateway calls are
\* left out: the gateway client library retries inside the call.)
C16_TransientRetried ==
    /\ \A n \in 1..Len(i_log) : i_log[n].kind = "fatal" => n = Len(i_log)
    /\ (i_pc = "raised" /\ i_log[Len(i_log)].op \in StoreCalls) =>
        LET last == i_log[Len(i_log)]
        IN \/ last.kind = "fatal"
           \/ /\ Len(i_log) >= 2
              /\ i_log[Len(i_log) - 1] = last

CompleteChunks(db, a) ==
    LET chunks == chunk_article(a.full_text_markdown)
    IN \A j \in 1..Len(chunks) :
          \E c \in db.chunks :
              /\ c.article_id = a.id
              /\ c.chunk_index = chunks[j].chunk_index
              /\ c.chunk_text = chunks[j].chunk_text

\* C17: when an interrupted ingestion is run again, the finished re-run
\* leaves every ingested document with its complete set of chunks.
C17_ResumeCompletes ==
    (i_run = 2 /\ i_pc = "done") =>
        \A a \in 1..Len(i_db.articles) : CompleteChunks(i_db, i_db.articles[a])

SlugsAtStart == {i_db0.articles[j].url_slug : j \in 1..Len(i_db0.articles)}
NewPositions == {j \in 1..Len(i_source) : i_source[j].slug \notin SlugsAtStart}
KthNewPosition(k) ==
    CHOOSE x \in NewPositions : Cardinality({y \in NewPositions : y < x}) = k - 1

RssSelective ==
    /\ \A n \in 1..Len(i_log) : i_articles[i_log[n].idx].slug \notin SlugsAtStart
    /\ i_idx <= (IF i_max < 0 THEN 0 ELSE i_max)
    /\ i_idx <= Cardinality(NewPositions)
    /\ \A k \in 1..i_idx : i_articles[k] = i_source[KthNewPosition(k)]
    /\ NewPositions = {} => (i_db = i_db0 /\ i_log = <<>>)

\* C18: ingest_rss makes no call for a feed item whose slug the store held
\* when the run started, processes at most max_articles new items, taken in
\* feed order, and writes nothing when no item is new.
C18_OnlyNewArticles ==
    i_path = "rss" => RssSelective

\* C19: no document whose text is smaller than MIN_ARTICLE_BYTES is stored,
\* chunked or embedded, on either path.
C19_SmallNeverChunked ==
    \A n \in 1..Len(i_log) :
        i_log[n].op \in {"upsert_article", "chunk_article", "embed_texts", "upsert_chunks"}
            => i_articles[i_log[n].idx].body.md_bytes >= MIN_ARTICLE_BYTES

-----------------------------------------------------------------------------
(* Properties of concurrent retrieval *)

\* C20: retrieval never mutates shared state: no interleaving of concurrent
\* find_similar_chunks calls writes a process-wide variable or constructs
\* more than one embedding client handle.
C20_RetrievalReadOnly ==
    /\ k_writes = 0
    /\ k_handles <= 1

-----------------------------------------------------------------------------
(* Properties of the chunker's three passes *)

HeadingPositions(text) == {i \in 1..Len(text) : text[i].k = "H"}

\* the lines before the first heading line (all lines when there is none)
Preamble(text) ==
    IF HeadingPositions(text) = {} THEN text
    ELSE SubSeq(text, 1, (CHOOSE i \in HeadingPositions(text) :
                            \A j \in HeadingPositions(text) : i <= j) - 1)

\* C21: after segmentation every heading line of the input is the label of
\* some section, non-blank text before the first heading is the first section
\* with a null heading, and a text with no heading gives exactly one section
\* with a null heading.
C21_HeadingSections ==
    pc = "sectioned" =>
        /\ \A i \in HeadingPositions(markdown) :
                \E j \in 1..Len(sections) : sections[j].heading = markdown[i].h
        /\ (Preamble(markdown) # <<>> /\ ~WhitespaceOnly(Preamble(markdown))) =>
                /\ sections # <<>>
                /\ sections[1] = Section(None, Strip(Preamble(markdown)))
        /\ HeadingPositions(markdown) = {} =>
                /\ Len(sections) = 1
                /\ sections[1].heading = None

\* the greedy forward merge as stated: the running section takes the next one
\* when their token counts sum to at most the threshold; its heading is the
\* earliest heading that is not null
RECURSIVE GreedyMerge(_, _, _)
GreedyMerge(rest, done, threshold) ==
    IF rest = <<>> THEN done
    ELSE LET running == done[Len(done)]
             next == Head(rest)
         IN IF count_tokens(running.text) + count_tokens(next.text) <= threshold
            THEN GreedyMerge(Tail(rest),
                    [done EXCEPT ![Len(done)] =
                        Section(IF running.heading # None THEN running.heading
                                ELSE next.heading,
                                JoinBlank(running.text, next.text))],
                    threshold)
            ELSE GreedyMerge(Tail(rest), Append(done, next), threshold)

\* C22: merge_small_sections returns the greedy forward merge of its input,
\* each merged section carrying the earliest non-null heading of the sections
\* merged into it, and leaves the input list and its records unmodified.
C22_GreedyMerge ==
    m_pc = "returned" =>
        /\ m_input = m_sections
        /\ m_merged = IF m_sections = <<>> THEN <<>>
                      ELSE GreedyMerge(Tail(m_sections), <<m_sections[1]>>, m_threshold)

\* the paragraphs of the sub-chunks, in order
RECURSIVE ParagraphsOfChunks(_)
ParagraphsOfChunks(chunks) ==
    IF chunks = <<>> THEN <<>>
    ELSE re_split_paragraphs(Head(chunks)) \o ParagraphsOfChunks(Tail(chunks))

RECURSIVE SumParagraphTokens(_)
SumParagraphTokens(ps) ==
    IF ps = <<>> THEN 0 ELSE count_tokens(Head(ps)) + SumParagraphTokens(Tail(ps))

\* C23: the sub-chunks split_by_paragraphs returns partition the paragraphs of
\* the text in order, each paragraph whole in one sub-chunk; a sub-chunk ends
\* only where the next paragraph would take the running total over max_tokens;
\* no sub-chunk is empty; a paragraph over max_tokens is a sub-chunk of its own.
C23_ParagraphPartition ==
    s_pc = "returned" =>
        /\ ParagraphsOfChunks(s_chunks) = s_paragraphs
        /\ s_paragraphs = re_split_paragraphs(s_text)
        /\ \A c \in 1..(Len(s_chunks) - 1) :
                SumParagraphTokens(re_split_paragraphs(s_chunks[c]))
                    + count_tokens(re_split_paragraphs(s_chunks[c + 1])[1])
                    > s_max_tokens
        /\ \A c \in 1..Len(s_chunks) :
                /\ s_chunks[c] # EmptyText
                /\ \A p \in 1..Len(re_split_paragraphs(s_chunks[c])) :
                        count_tokens(re_split_paragraphs(s_chunks[c])[p]) > s_max_tokens
                            => Len(re_split_paragraphs(s_chunks[c])) = 1

-----------------------------------------------------------------------------
(* Properties of the application pages *)

PageStoreReads ==
    {"get_all_articles", "get_article_by_id", "get_article_count", "get_chunk_count",
     "get_all_chunk_embeddings", "get_all_gap_feedback", "_get_style_examples",
     "match_chunks", "find_similar_chunks"}

PageServiceCalls ==
    {"find_similar_chunks", "embed_single", "suggest_internal_links",
     "label_clusters_with_claude", "draft_article", "build_glossary_entry"}

EffectOps == {a_effects[i].op : i \in 1..Len(a_effects)}

\* C24: with APP_PASSWORD configured, a page run in a session whose
\* "authenticated" flag is not true reads nothing from the store, calls no
\* embedding or text-generation service and renders no content, whichever
\* page is opened; the flag becomes true only in a run of the home page that
\* submitted the correct password.
C24_AuthGate ==
    /\ (Configured(a_secret) /\ a_auth # "True") =>
            EffectOps \cap (PageStoreReads \cup PageServiceCalls \cup {"content"}) = {}
    /\ (a_auth = "True" /\ a_auth0 # "True") =>
            a_page = "home" /\ a_in.password = a_secret

\* C29: a run of the Internal Linking page calls find_similar_chunks or
\* suggest_internal_links only if 'Find linking opportunities' was pressed in
\* that run, in both input modes, and with an existing article as the source
\* the article's id is the exclude_article_id of the retrieval call.
C29_LinkingOnButton ==
    a_page = "linking" =>
        /\ EffectOps \cap {"find_similar_chunks", "suggest_internal_links"} # {}
                => a_in.button
        /\ a_in.mode = "Select existing article" =>
                \A i \in 1..Len(a_effects) :
                    a_effects[i].op = "find_similar_chunks" =>
                        a_effects[i].exclude = SomeInt(a_articles[a_in.selected].id)

-----------------------------------------------------------------------------
(* Properties of repeated ingestion *)

StoredChunksOf(db, article_id) == {c \in db.chunks : c.article_id = article_id}

SeqToSet(s) == {s[j] : j \in 1..Len(s)}

\* C25: after any sequence of ingestions (every run has returned, none
\* raised) the chunk rows stored for a document are exactly the chunks of its
\* most recent chunking (the chunking of the text its article row now holds):
\* no row of an earlier, longer version stays.
C25_NoStaleChunks ==
    (r_pc = "done" /\ ~r_raised) =>
        \A i \in 1..Len(r_db.articles) :
            StoredChunksOf(r_db, r_db.articles[i].id)
                = SeqToSet(ChunkRowsOf(r_db.articles[i].id, r_db.articles[i].full_text_markdown))

\* C26: after any sequence of export and feed ingestions, none of which
\* raised, each source article has at most one row in the articles table: no
\* two rows are rows of the same article on the site.
C26_OneRowPerArticle ==
    ~r_raised =>
        \A i, j \in 1..Len(r_db.articles) :
            CleanSlug(r_db.articles[i].url_slug) = CleanSlug(r_db.articles[j].url_slug)
                => i = j

-----------------------------------------------------------------------------
(* Properties of the response parser: attribution and keys *)

\* C27: in the returned map the gaps of a cluster are the "- " lines whose
\* nearest preceding CLUSTER header names that cluster, and its label is the
\* last such "Label:" line; lines after a header whose id cannot be parsed, and
\* lines before the first header, reach no cluster.
C27_NearestHeaderAttribution ==
    p_pc = "returned" =>
        \A n \in 1..Len(p_st.results) :
            LET e == p_st.results[n]
                labels == LinesOf(p_text, "Label", e.cid)
                gaps == LinesOf(p_text, "Gap", e.cid)
            IN /\ e.gaps = [j \in 1..Len(gaps) |-> p_text[gaps[j]].t]
               /\ IF labels # <<>> THEN e.label = p_text[labels[Len(labels)]].t
                  ELSE e.label \in {"", TopicLabel(e.cid)}

\* C28: the returned map has exactly the input cluster ids as keys, and every
\* entry has a non-empty label: a label parsed from the response or the
\* placeholder "Topic <id>".
C28_ExactKeysNonEmptyLabels ==
    p_pc = "returned" =>
        /\ {p_st.results[n].cid : n \in 1..Len(p_st.results)}
                = {p_cluster_ids[n] : n \in 1..Len(p_cluster_ids)}
        /\ \A n \in 1..Len(p_st.results) :
                /\ p_st.results[n].label # ""
                /\ \/ p_st.results[n].label = TopicLabel(p_st.results[n].cid)
                   \/ \E j \in 1..Len(p_text) :
                        p_text[j].k = "Label" /\ p_text[j].t = p_st.results[n].label

(* Properties of concurrent ingestion *)

UniqueKeys(db) ==
    /\ \A i, j \in 1..Len(db.articles) :
          db.articles[i].post_id = db.articles[j].post_id => i = j
    /\ \A c, d \in db.chunks :
          (c.article_id = d.article_id /\ c.chunk_index = d.chunk_index) => c = d

\* a chunk row without the vector the gateway returned for it
ChunkRowKept(c) ==
    [article_id |-> c.article_id, chunk_index |-> c.chunk_index, chunk_text |-> c.chunk_text,
     heading |-> c.heading, token_count |-> c.token_count]

\* ingester p takes a step of its second run, and its first run ingested the
\* document completely
ReIngests(p) ==
    /\ x_proc[p].run = 2
    /\ x_proc[p].first = "ingested"
    /\ x_proc'[p] # x_proc[p]

====
